---- MODULE Spec2Model ----
(***************************************************************************)
(* Player progression and mission economy engine of StoryQuestPrototype:   *)
(* the currency ledger (user.py), the mission lifecycle                    *)
(* (mission_generator.py) and the per-player relationship records.         *)
(* Every handler is one atomic action: the engine runs one request at a    *)
(* time. The specifications SpecRaceResolve and SpecRaceSpend run two      *)
(* requests with their own sessions side by side, and SpecServer is the    *)
(* HTTP layer with its in-memory state (server/app.py).                    *)
(***************************************************************************)
EXTENDS Integers, Sequences, FiniteSets, TLC

VARIABLES missions, players, ledger, start, last, applied, evolutions,
          requests, users, stories

vars == <<missions, players, ledger, start, last, applied, evolutions,
          requests, users, stories>>

(* ------------------------------ bounds --------------------------------- *)

\* Mission rows created in one run.
MaxMissions == 1
\* progress_updates entries written by update_progress on one mission.
MaxLog == 1
\* Transaction rows written by direct spend / credit calls in one run.
MaxLedger == 2
\* encounters of one player with one character in one run.
MaxEncounters == 2
\* successful change_character_relationship calls on one record in one run.
MaxChanges == 2
\* relationship_network writes (the times they are stamped with) in one run.
MaxStamp == 2
\* evolution_log entries of one CharacterEvolution row in one run.
MaxEvolutionLog == 3
\* experience points a player is taken to by direct add_experience_points
\* calls in one run.
MaxXp == 500

\* entries of the HTTP layer's stories dict in one run.
MaxStories == 2
\* choice_history entries of one user of the HTTP layer in one run.
MaxChoices == 1

\* pieces of the story texts that are enumerated in full
MaxTextLen == 3

(* --------------------------- value spaces ------------------------------ *)

\* user ids with a UserProgress row
PlayerIds == {"u1", "u2"}
\* user ids a caller may pass; "ghost" has no UserProgress row
UserIds == PlayerIds \cup {"ghost"}
\* character ids of the character directory (ImageAnalysis rows)
CharIds == {1, 2}
\* a falsy character id: None (no match in the directory / absent in payload)
NoChar == 0
\* from_currency / to_currency left unset on a Transaction
NoCurrency == "none"

\* UserProgress.currency_balances column default
DefaultBalances ==
  [c \in {"diamonds", "pounds", "euros", "yen", "dollars"} |->
     IF c = "diamonds" THEN 500 ELSE 5000]

\* BASE_REWARDS
BASE_REWARDS ==
  [c \in {"diamonds", "dollars", "pounds", "euros", "yen"} |->
     CASE c = "diamonds" -> 1
       [] c = "dollars"  -> 1500
       [] c = "pounds"   -> 1400
       [] c = "euros"    -> 1450
       [] c = "yen"      -> 150000]

(* ------------------------------ helpers -------------------------------- *)

\* dict.get(key, 0)
Get(b, c) == IF c \in DOMAIN b THEN b[c] ELSE 0

\* d[key] = value on a dict
Put(b, c, v) == [k \in DOMAIN b \cup {c} |-> IF k = c THEN v ELSE b[k]]

\* x in list
InList(s, x) == \E i \in 1..Len(s) : s[i] = x

\* list.remove(x): drops the first occurrence
RECURSIVE RemoveFirst(_, _)
RemoveFirst(s, x) ==
  IF s = <<>> THEN <<>>
  ELSE IF Head(s) = x THEN Tail(s)
  ELSE <<Head(s)>> \o RemoveFirst(Tail(s), x)

\* int(math.sqrt(n)) for an integer n >= 0
ISqrt(n) == CHOOSE k \in 0..n : k * k <= n /\ (k + 1) * (k + 1) > n

\* The persistent state the handlers read and write, threaded through them.
World == [m |-> missions, p |-> players, l |-> ledger]

\* A Transaction row
Transaction(uid, type, from, to, amount) ==
  [user_id |-> uid, type |-> type, from_currency |-> from,
   to_currency |-> to, amount |-> amount]

(* --------------------------- Ledger (user.py) --------------------------- *)

\* mutant: a currency missing from the balances is not looked at
RECURSIVE can_afford_skip_absent(_, _)
can_afford_skip_absent(b, R) ==
  IF R = <<>> THEN TRUE
  ELSE IF R[1][1] \in DOMAIN b /\ b[R[1][1]] < R[1][2] THEN FALSE
  ELSE can_afford_skip_absent(b, Tail(R))

\* UserProgress.can_afford over a requirements dict given as the sequence
\* of its (currency, amount) items in iteration order
RECURSIVE can_afford_loop(_, _)
can_afford_loop(b, R) ==
  IF R = <<>> THEN TRUE
  ELSE IF Get(b, R[1][1]) < R[1][2] THEN FALSE
  ELSE can_afford_loop(b, Tail(R))

can_afford(b, R) ==
  IF R = <<>> THEN TRUE ELSE can_afford_loop(b, R)

\* the debit loop of spend_currency: one balance update and one Transaction
\* per item
RECURSIVE spend_loop(_, _, _, _)
spend_loop(W, uid, R, type) ==
  IF R = <<>> THEN W
  ELSE LET c == R[1][1]
           a == R[1][2]
           b == W.p[uid].currency_balances
           W1 == [W EXCEPT !.p[uid].currency_balances = Put(b, c, Get(b, c) - a),
                           !.l = Append(@, Transaction(uid, type, c, NoCurrency, a))]
       IN spend_loop(W1, uid, Tail(R), type)

\* mutant: affordability is tested item by item while debiting
RECURSIVE spend_currency_piecewise(_, _, _, _)
spend_currency_piecewise(W, uid, R, type) ==
  IF R = <<>> THEN [w |-> W, ret |-> TRUE]
  ELSE IF Get(W.p[uid].currency_balances, R[1][1]) < R[1][2]
       THEN [w |-> W, ret |-> FALSE]
  ELSE spend_currency_piecewise(spend_loop(W, uid, <<R[1]>>, type), uid, Tail(R), type)

\* mutant: after a failed commit the debits and the new rows stay
spend_currency_stored_dirty(W, uid, R, type, commit_fails) ==
  IF ~can_afford(W.p[uid].currency_balances, R)
  THEN [w |-> W, ret |-> FALSE]
  ELSE [w |-> spend_loop(W, uid, R, type), ret |-> ~commit_fails]

\* UserProgress.spend_currency with the outcome of its db.session.commit():
\* when the commit raises, the except branch rolls the session back, which
\* discards the pending Transaction rows and expires the loaded balances
spend_currency_stored(W, uid, R, type, commit_fails) ==
  IF ~can_afford(W.p[uid].currency_balances, R)
  THEN [w |-> W, ret |-> FALSE]
  ELSE IF commit_fails THEN [w |-> W, ret |-> FALSE]
  ELSE [w |-> spend_loop(W, uid, R, type), ret |-> TRUE]

\* UserProgress.spend_currency when the storage accepts the commit
spend_currency(W, uid, R, type) ==
  spend_currency_stored(W, uid, R, type, FALSE)

\* mutant: the balance is raised and no Transaction is recorded
add_currency_unrecorded(W, uid, currency, amount, type) ==
  LET b == W.p[uid].currency_balances
  IN [w |-> [W EXCEPT !.p[uid].currency_balances = Put(b, currency, Get(b, currency) + amount)],
      ret |-> TRUE]

\* UserProgress.add_currency
add_currency(W, uid, currency, amount, type) ==
  LET b == W.p[uid].currency_balances
  IN [w |-> [W EXCEPT !.p[uid].currency_balances = Put(b, currency, Get(b, currency) + amount),
                      !.l = Append(@, Transaction(uid, type, NoCurrency, currency, amount))],
      ret |-> TRUE]

(* ---------------------- Progression (user.py) -------------------------- *)

\* new_level = 1 + int(math.sqrt(experience_points / 100))
LevelFor(xp) == 1 + ISqrt(xp \div 100)

\* level_bonus = 50 * new_level
LevelBonus(new_level) == 50 * new_level

\* mutant: the level is set to the recomputed level whenever the two differ
add_experience_points_resettle(W, uid, points) ==
  LET xp == W.p[uid].experience_points + points
      W1 == [W EXCEPT !.p[uid].experience_points = xp]
  IN IF xp < 0 THEN [w |-> W, ret |-> FALSE, raised |-> TRUE]
     ELSE IF LevelFor(xp) > W.p[uid].level
     THEN [w |-> add_currency([W1 EXCEPT !.p[uid].level = LevelFor(xp)], uid, "euros",
                              LevelBonus(LevelFor(xp)), "level_up").w,
           ret |-> TRUE, raised |-> FALSE]
     ELSE [w |-> [W1 EXCEPT !.p[uid].level = LevelFor(xp)],
           ret |-> FALSE, raised |-> FALSE]

\* one level_up credit for each of the levels from..to
RECURSIVE BonusForEach(_, _, _, _)
BonusForEach(W, uid, from, to) ==
  IF from > to THEN W
  ELSE BonusForEach(add_currency(W, uid, "euros", LevelBonus(from), "level_up").w,
                    uid, from + 1, to)

\* mutant: a bonus is credited for every level gained
add_experience_points_per_level(W, uid, points) ==
  LET xp == W.p[uid].experience_points + points
      W1 == [W EXCEPT !.p[uid].experience_points = xp]
  IN IF xp < 0 THEN [w |-> W, ret |-> FALSE, raised |-> TRUE]
     ELSE IF LevelFor(xp) > W.p[uid].level
     THEN [w |-> BonusForEach([W1 EXCEPT !.p[uid].level = LevelFor(xp)], uid,
                              W.p[uid].level + 1, LevelFor(xp)),
           ret |-> TRUE, raised |-> FALSE]
     ELSE [w |-> W1, ret |-> FALSE, raised |-> FALSE]

\* UserProgress.add_experience_points. math.sqrt raises ValueError on a
\* negative argument: the call ends there, before any commit, and the row
\* keeps its stored values (raised).
add_experience_points(W, uid, points) ==
  LET xp == W.p[uid].experience_points + points
      new_level == LevelFor(xp)
      level_up == new_level > W.p[uid].level
      W1 == [W EXCEPT !.p[uid].experience_points = xp]
  IN IF xp < 0 THEN [w |-> W, ret |-> FALSE, raised |-> TRUE]
     ELSE IF level_up
     THEN [w |-> add_currency([W1 EXCEPT !.p[uid].level = new_level], uid, "euros",
                              LevelBonus(new_level), "level_up").w,
           ret |-> TRUE, raised |-> FALSE]
     ELSE [w |-> W1, ret |-> FALSE, raised |-> FALSE]

(* ------------------ Player relationships (user.py) --------------------- *)

\* mutant: a repeat encounter sets the level to the value passed
encounter_character_reset(W, uid, cid, character_name, initial_relationship, now) ==
  LET e == W.p[uid].encountered_characters
  IN IF cid \notin DOMAIN e
     THEN [W EXCEPT !.p[uid].encountered_characters =
             Put(e, cid, [name |-> character_name,
                          relationship_level |-> initial_relationship,
                          first_encounter |-> now,
                          encounters_count |-> 1,
                          last_encounter |-> now,
                          relationship_history |-> <<>>])]
     ELSE [W EXCEPT !.p[uid].encountered_characters[cid].encounters_count = @ + 1,
                    !.p[uid].encountered_characters[cid].relationship_level =
                       initial_relationship,
                    !.p[uid].encountered_characters[cid].last_encounter = now]

\* UserProgress.encounter_character; now: what datetime.utcnow() returns.
\* relationship_history, a key the record gets with its first entry, is
\* the empty list until then.
encounter_character(W, uid, cid, character_name, initial_relationship, now) ==
  LET e == W.p[uid].encountered_characters
  IN IF cid \notin DOMAIN e
     THEN [W EXCEPT !.p[uid].encountered_characters =
             Put(e, cid, [name |-> character_name,
                          relationship_level |-> initial_relationship,
                          first_encounter |-> now,
                          encounters_count |-> 1,
                          last_encounter |-> now,
                          relationship_history |-> <<>>])]
     ELSE [W EXCEPT !.p[uid].encountered_characters[cid].encounters_count = @ + 1,
                    !.p[uid].encountered_characters[cid].last_encounter = now]

\* mutant: the history entry is written whether or not a reason is given
change_character_relationship_logged(W, uid, cid, change_amount, hasReason) ==
  LET e == W.p[uid].encountered_characters
  IN IF cid \notin DOMAIN e
     THEN [w |-> W, ret |-> FALSE]
     ELSE [w |-> [W EXCEPT
                    !.p[uid].encountered_characters[cid].relationship_level =
                       @ + change_amount,
                    !.p[uid].encountered_characters[cid].relationship_history =
                       Append(@, change_amount)],
           ret |-> TRUE]

\* UserProgress.change_character_relationship; hasReason: a non-empty reason
change_character_relationship(W, uid, cid, change_amount, hasReason) ==
  LET e == W.p[uid].encountered_characters
  IN IF cid \notin DOMAIN e
     THEN [w |-> W, ret |-> FALSE]
     ELSE [w |-> [W EXCEPT
                    !.p[uid].encountered_characters[cid].relationship_level =
                       @ + change_amount,
                    !.p[uid].encountered_characters[cid].relationship_history =
                       IF hasReason THEN Append(@, change_amount) ELSE @],
           ret |-> TRUE]

(* ------------------ Character evolution (character.py) ---------------- *)

\* role of a CharacterEvolution row that was given none
NoRole == "none"

\* A CharacterEvolution row with the column defaults
NewEvolution ==
  [role |-> NoRole, evolved_traits |-> <<>>, relationship_network |-> <<>>,
   evolution_log |-> <<>>]

\* mutant: the trait is appended without looking for it in the list
add_trait_again(ce, trait, reason) ==
  [ce |-> [ce EXCEPT !.evolved_traits = Append(@, trait),
                     !.evolution_log =
                        Append(@, [type |-> "trait_added", trait |-> trait,
                                   reason |-> reason])],
   ret |-> TRUE]

\* CharacterEvolution.add_trait; reason: <<>> for None
add_trait(ce, trait, reason) ==
  IF ~InList(ce.evolved_traits, trait)
  THEN [ce |-> [ce EXCEPT !.evolved_traits = Append(@, trait),
                          !.evolution_log =
                             Append(@, [type |-> "trait_added", trait |-> trait,
                                        reason |-> reason])],
        ret |-> TRUE]
  ELSE [ce |-> ce, ret |-> FALSE]

\* mutant: the old role is read after the new one was assigned
update_role_late(ce, new_role, reason) ==
  [ce |-> [ce EXCEPT !.role = new_role,
                     !.evolution_log =
                        Append(@, [type |-> "role_changed", old_role |-> new_role,
                                   new_role |-> new_role, reason |-> reason])],
   ret |-> TRUE]

\* CharacterEvolution.update_role
update_role(ce, new_role, reason) ==
  [ce |-> [ce EXCEPT !.role = new_role,
                     !.evolution_log =
                        Append(@, [type |-> "role_changed", old_role |-> ce.role,
                                   new_role |-> new_role, reason |-> reason])],
   ret |-> TRUE]

\* evolve_character_traits on the row of character cid, E: the rows by
\* character id
evolve_character_traits(E, cid) ==
  IF cid \notin DOMAIN E THEN [e |-> E, ret |-> FALSE]
  ELSE [e |-> [E EXCEPT ![cid].evolution_log =
                          Append(@, [type |-> "story_interaction"])],
        ret |-> TRUE]

\* mutant: an edge that exists keeps its type and adds the strength
add_relationship_merged(ce, target_character_id, relationship_type, strength, now) ==
  LET n == ce.relationship_network
  IN [ce EXCEPT !.relationship_network =
        Put(n, target_character_id,
            IF target_character_id \in DOMAIN n
            THEN [type |-> n[target_character_id].type,
                  strength |-> n[target_character_id].strength + strength,
                  last_updated |-> now]
            ELSE [type |-> relationship_type, strength |-> strength,
                  last_updated |-> now])]

\* CharacterEvolution.add_relationship; now: what datetime.utcnow() returns
add_relationship(ce, target_character_id, relationship_type, strength, now) ==
  [ce EXCEPT !.relationship_network =
     Put(@, target_character_id,
         [type |-> relationship_type, strength |-> strength,
          last_updated |-> now])]

\* dict.get(key, default) on change_data, an absent key being <<>>
GetOr(opt, default) == IF opt = <<>> THEN default ELSE opt[1]

\* mutant: the loop ends at the first target without a row and the batch
\* reports failure
RECURSIVE update_loop_strict(_, _, _, _)
update_loop_strict(E, protagonist_id, changes, now) ==
  IF changes = <<>> THEN [e |-> E, ret |-> TRUE]
  ELSE LET target_id == changes[1][1]
           change_data == changes[1][2]
           rel_type == GetOr(change_data.type, "neutral")
           strength == GetOr(change_data.amount, 0)
           E1 == IF protagonist_id \in DOMAIN E
                 THEN [E EXCEPT ![protagonist_id] =
                         add_relationship(@, target_id, rel_type, strength, now)]
                 ELSE E
       IN IF target_id \notin DOMAIN E THEN [e |-> E, ret |-> FALSE]
          ELSE update_loop_strict(
                 [E1 EXCEPT ![target_id] =
                    add_relationship(@, protagonist_id,
                                     GetOr(change_data.inverse_type, rel_type),
                                     GetOr(change_data.inverse_amount, strength),
                                     now)],
                 protagonist_id, Tail(changes), now)

\* mutant: the edge from the protagonist is written without looking for
\* the protagonist's row, and only when that row exists is the inverse
\* edge written
RECURSIVE update_loop_one_way(_, _, _, _)
update_loop_one_way(E, protagonist_id, changes, now) ==
  IF changes = <<>> THEN [e |-> E, ret |-> TRUE]
  ELSE LET target_id == changes[1][1]
           change_data == changes[1][2]
           rel_type == GetOr(change_data.type, "neutral")
           strength == GetOr(change_data.amount, 0)
       IN IF target_id \notin DOMAIN E
          THEN update_loop_one_way(E, protagonist_id, Tail(changes), now)
          ELSE update_loop_one_way(
                 [E EXCEPT ![target_id] =
                    add_relationship(@, protagonist_id, rel_type, strength, now)],
                 protagonist_id, Tail(changes), now)

\* update_character_relationships: the loop over relationship_changes, given
\* as the sequence of its (target id, change_data) items. E: the rows of
\* the user's story by character id (char_map).
RECURSIVE update_loop(_, _, _, _)
update_loop(E, protagonist_id, changes, now) ==
  IF changes = <<>> THEN [e |-> E, ret |-> TRUE]
  ELSE LET target_id == changes[1][1]
           change_data == changes[1][2]
           rel_type == GetOr(change_data.type, "neutral")
           strength == GetOr(change_data.amount, 0)
           E1 == IF protagonist_id \in DOMAIN E
                 THEN [E EXCEPT ![protagonist_id] =
                         add_relationship(@, target_id, rel_type, strength, now)]
                 ELSE E
       IN IF target_id \notin DOMAIN E
          THEN update_loop(E, protagonist_id, Tail(changes), now)
          ELSE update_loop(
                 [E1 EXCEPT ![target_id] =
                    add_relationship(@, protagonist_id,
                                     GetOr(change_data.inverse_type, rel_type),
                                     GetOr(change_data.inverse_amount, strength),
                                     now)],
                 protagonist_id, Tail(changes), now)

\* update_character_relationships
update_character_relationships(E, protagonist_id, changes, now) ==
  update_loop(E, protagonist_id, changes, now)

(* ------------- Mission extraction (mission_generator.py) --------------- *)

\* A story text is a sequence of lexical pieces. A piece follows a space,
\* except "." and "'s", which attach to the piece before them. "mission--"
\* ends with the dash of the objective pattern, "euros" is the euro symbol.
Pieces ==
  {"figure of", "Mara", "shadow", "Corp", "on", "'s", "plans", "against",
   "mission--", ".", "reward?", "2,500", "euros"}

\* a str argument, and an argument that is no str (None, a number)
StoryText(pieces) == [is_str |-> TRUE, pieces |-> pieces]
NotAString == [is_str |-> FALSE, pieces |-> <<>>]

\* no match: None for giver and target
NoName == "None"

\* the objective when the pattern does not match
DefaultObjective == <<"Objective not clearly specified.">>

\* "." and "'s" follow the previous piece without a space
Attached(p) == p \in {".", "'s"}

\* a piece made of word characters only (\w+ up to the next space)
IsWord(p) == p \in {"Mara", "shadow", "Corp", "on", "plans", "against"}

\* \w+ at the start of a piece: its longest prefix of word characters
WordPrefix(p) ==
  CASE p = "figure of" -> "figure"
    [] p = "mission--" -> "mission"
    [] p = "reward?" -> "reward"
    [] p = "2,500" -> "2"
    [] p \in {".", "'s", "euros"} -> NoName
    [] OTHER -> p

\* [A-Z][a-z]+ at the start of a piece
CapPrefix(p) == IF p \in {"Mara", "Corp"} THEN p ELSE NoName

\* (\d{1,3}(?:,\d{3})*|\d+) at the start of a piece and int() of it with
\* the commas removed; 0: no digits
IntOf(p) == IF p = "2,500" THEN 2500 ELSE 0

\* [currency symbols] as a piece
CurrencyOf(p) == IF p = "euros" THEN "euros" ELSE NoCurrency

\* re.search: the leftmost of the positions at which a pattern matches, 0
\* for none
FirstMatch(positions) ==
  IF positions = {} THEN 0
  ELSE CHOOSE i \in positions : \A j \in positions : i <= j

\* figure of (\w+ Corp|[A-Z][a-z]+), first alternative
GiverCorpAt(t, i) ==
  /\ i + 2 <= Len(t)
  /\ t[i] = "figure of" /\ IsWord(t[i + 1]) /\ t[i + 2] = "Corp"

\* figure of (\w+ Corp|[A-Z][a-z]+)
GiverAt(t, i) ==
  \/ GiverCorpAt(t, i)
  \/ i + 1 <= Len(t) /\ t[i] = "figure of" /\ CapPrefix(t[i + 1]) # NoName

\* giver_match.group(1): the first alternative is tried first
GiverGroup(t, i) ==
  IF GiverCorpAt(t, i) THEN <<t[i + 1], "Corp">> ELSE <<CapPrefix(t[i + 1])>>

\* on (\w+'s) plans
TargetPlansAt(t, i) ==
  /\ i + 3 <= Len(t)
  /\ t[i] = "on" /\ IsWord(t[i + 1]) /\ t[i + 2] = "'s" /\ t[i + 3] = "plans"

\* on (\w+'s) plans|against (\w+)
TargetAt(t, i) ==
  \/ TargetPlansAt(t, i)
  \/ /\ i + 1 <= Len(t)
     /\ t[i] = "against" /\ ~Attached(t[i + 1]) /\ WordPrefix(t[i + 1]) # NoName

\* group(1) with its "'s" removed, or group(2)
TargetGroup(t, i) ==
  IF TargetPlansAt(t, i) THEN t[i + 1] ELSE WordPrefix(t[i + 1])

\* the end of the lazy group of mission--(.+?)[\.\']: the first "." or "'"
\* after at least one character, 0 for none
ObjectiveEnd(t, i) ==
  IF \E j \in (i + 2)..Len(t) : Attached(t[j])
  THEN CHOOSE j \in (i + 2)..Len(t) :
         Attached(t[j]) /\ \A k \in (i + 2)..(j - 1) : ~Attached(t[k])
  ELSE 0

\* reward\?\s*(number)\s*([currency symbols])
RewardAt(t, i) ==
  /\ i + 2 <= Len(t)
  /\ t[i] = "reward?" /\ IntOf(t[i + 1]) # 0 /\ CurrencyOf(t[i + 2]) # NoCurrency

\* the returned dict of extract_mission_details; giver and target are piece
\* sequences, <<>> for None
ExtractedDetails(t) ==
  LET g == FirstMatch({i \in 1..Len(t) : GiverAt(t, i)})
      tg == FirstMatch({i \in 1..Len(t) : TargetAt(t, i)})
      \* mission--(.+?)[\.\']
      o == FirstMatch({i \in 1..Len(t) :
                         t[i] = "mission--" /\ ObjectiveEnd(t, i) # 0})
      r == FirstMatch({i \in 1..Len(t) : RewardAt(t, i)})
  IN [giver |-> IF g # 0 THEN GiverGroup(t, g) ELSE <<>>,
      target |-> IF tg # 0 THEN <<TargetGroup(t, tg)>> ELSE <<>>,
      objective |-> IF o # 0 THEN SubSeq(t, o + 1, ObjectiveEnd(t, o) - 1)
                    ELSE DefaultObjective,
      reward_amount |-> IF r # 0 THEN IntOf(t[r + 1]) ELSE 1500,
      reward_currency |-> IF r # 0 THEN CurrencyOf(t[r + 2]) ELSE "dollars"]

\* mutant: a text without a reward is given up on
extract_mission_details_strict(story_text) ==
  IF \/ ~story_text.is_str
     \/ \A i \in 1..Len(story_text.pieces) : ~RewardAt(story_text.pieces, i)
  THEN <<>>
  ELSE <<ExtractedDetails(story_text.pieces)>>

\* extract_mission_details: <<details>>, or <<>> for None (re.search raises
\* on an argument that is no str and the except branch returns None)
extract_mission_details(story_text) ==
  IF ~story_text.is_str THEN <<>>
  ELSE <<ExtractedDetails(story_text.pieces)>>

(* ------------------ Mission lifecycle (mission_generator.py) ----------- *)

\* A progress_updates entry; an absent key is the empty sequence.
Update(progress, status, reason) ==
  [progress |-> progress, status |-> status, reason |-> reason]

\* mutant: the medium test is applied after the hard test
DifficultyForMediumLast(amount, currency) ==
  LET d1 == IF 2 * amount > 5 * BASE_REWARDS[currency] THEN "hard" ELSE "easy"
  IN IF 2 * amount > 3 * BASE_REWARDS[currency] THEN "medium" ELSE d1

\* Difficulty from the reward: easy, medium above 1.5 x base, hard above
\* 2.5 x base, tested in that order (both sides doubled to stay in integers)
DifficultyFor(amount, currency) ==
  LET d1 == IF 2 * amount > 3 * BASE_REWARDS[currency] THEN "medium" ELSE "easy"
  IN IF 2 * amount > 5 * BASE_REWARDS[currency] THEN "hard" ELSE d1

\* str.lower() on the difficulty strings a payload carries here
Lower(s) ==
  CASE s = "Medium" -> "medium"
    [] s = "HARD" -> "hard"
    [] s = "Legendary" -> "legendary"
    [] OTHER -> s

\* Mission(...) as both creation paths build it; status, progress and
\* progress_updates take the column defaults
Mission(uid, giver_id, target_id, difficulty, currency, amount) ==
  [user_id |-> uid, giver_id |-> giver_id, target_id |-> target_id,
   difficulty |-> difficulty, reward_currency |-> currency,
   reward_amount |-> amount, status |-> "active", progress |-> 0,
   progress_updates |-> <<>>]

\* mutant: the id is appended without looking for it in the list
PersistMissionAlways(W, mission) ==
  LET W1 == [W EXCEPT !.m = Append(@, mission)]
  IN IF mission.user_id \in DOMAIN W1.p
     THEN [W1 EXCEPT !.p[mission.user_id].active_missions = Append(@, Len(W.m) + 1)]
     ELSE W1

\* db.session.add(mission); commit; then the append to the user's
\* active_missions when the user has a UserProgress row and the id is new
PersistMission(W, mission) ==
  LET id == Len(W.m) + 1
      uid == mission.user_id
      W1 == [W EXCEPT !.m = Append(@, mission)]
  IN IF uid \in DOMAIN W1.p /\ ~InList(W1.p[uid].active_missions, id)
     THEN [W1 EXCEPT !.p[uid].active_missions = Append(@, id)]
     ELSE W1

\* create_mission_from_story, from the extracted details and the directory's
\* answers for giver and target
create_mission_from_story(W, uid, giver_id, target_id, amount, currency) ==
  PersistMission(W, Mission(uid, giver_id, target_id,
                            DifficultyFor(amount, currency), currency, amount))

\* generate_mission on a story with a structured mission payload
generate_mission(W, uid, giver_id, target_id, difficulty, amount, currency) ==
  PersistMission(W, Mission(uid, giver_id, target_id, Lower(difficulty),
                            currency, amount))

\* ImageAnalysis.query ... character_name.ilike(name).first(): the id of the
\* character of that name, None (NoChar) when there is none or no name
LookupCharacter(name) ==
  IF name = <<"Mara">> THEN 1
  ELSE IF name = <<"shadow">> THEN 2
  ELSE NoChar

\* create_mission_from_story on a text: extraction, the directory lookups
\* and the creation; ret is the new mission's id, 0 for None. When the
\* commit raises, the except branch rolls back and returns None.
create_mission_from_story_text(W, uid, story_text, commit_fails) ==
  LET details == extract_mission_details(story_text)
  IN IF details = <<>> \/ commit_fails THEN [w |-> W, ret |-> 0]
     ELSE [w |-> create_mission_from_story(
                   W, uid, LookupCharacter(details[1].giver),
                   LookupCharacter(details[1].target),
                   details[1].reward_amount, details[1].reward_currency),
           ret |-> Len(W.m) + 1]

\* a giver_id / target_id of a mission payload: absent, a digit string, or
\* a JSON number (which has no isdigit)
IdAbsent == [given |-> FALSE, is_str |-> TRUE, id |-> NoChar]
IdString(n) == [given |-> TRUE, is_str |-> TRUE, id |-> n]
IdNumber(n) == [given |-> TRUE, is_str |-> FALSE, id |-> n]

\* giver_id / target_id of the payload branch: the id given directly, else
\* the directory's answer for the name
PayloadCharacter(id_field, name) ==
  IF id_field.given THEN id_field.id ELSE LookupCharacter(name)

\* story_data['mission']
Payload(title, giver_id, giver, target_id, target, difficulty, amount, currency) ==
  [title |-> title, giver_id |-> giver_id, giver |-> giver,
   target_id |-> target_id, target |-> target, difficulty |-> difficulty,
   reward_amount |-> amount, reward_currency |-> currency]

\* a StoryGeneration row whose generated_story is JSON with the keys
\* 'mission' and 'story' (<<>>: key absent or empty), and one whose
\* generated_story is plain text
JsonStory(mission, story) ==
  [is_json |-> TRUE, mission |-> mission, story |-> story,
   raw |-> IF story = <<>> THEN StoryText(<<>>) ELSE story[1]]
TextStory(story_text) ==
  [is_json |-> FALSE, mission |-> <<>>, story |-> <<>>, raw |-> story_text]

\* the outcome of free-text creation inside generate_mission
FromText(W, uid, story_text, commit_fails) ==
  LET r == create_mission_from_story_text(W, uid, story_text, commit_fails)
  IN [w |-> r.w, ret |-> r.ret, extracted |-> TRUE]

\* generate_mission, lines 259-266: the user's most recent story
FromRecent(W, uid, recent, commit_fails) ==
  IF recent = <<>> THEN [w |-> W, ret |-> 0, extracted |-> FALSE]
  ELSE FromText(W, uid, recent[1], commit_fails)

\* generate_mission for the story row found for story_id (<<>>: no
\* story_id, no row, or an empty generated_story) and the user's most recent
\* story. raises_after_commit: an exception between the commit of the
\* payload's mission row and the return; text_commit_fails: the commit of
\* the free-text creation raises. ret: the id of the mission returned, 0 for
\* None; extracted: extract_mission_details ran.
generate_mission_from(W, uid, story, recent, raises_after_commit, text_commit_fails) ==
  IF story = <<>> THEN FromRecent(W, uid, recent, text_commit_fails)
  ELSE LET s == story[1]
       IN IF ~s.is_json
          THEN FromText(W, uid, s.raw, text_commit_fails)
          ELSE IF s.mission # <<>> /\ s.mission[1].title
          THEN LET p == s.mission[1]
                   mission == Mission(uid,
                                      PayloadCharacter(p.giver_id, p.giver),
                                      PayloadCharacter(p.target_id, p.target),
                                      Lower(p.difficulty), p.reward_currency,
                                      p.reward_amount)
               IN IF \/ p.giver_id.given /\ ~p.giver_id.is_str
                     \/ p.target_id.given /\ ~p.target_id.is_str
                  THEN FromText(W, uid, s.raw, text_commit_fails)
                  ELSE IF raises_after_commit
                  THEN FromText([W EXCEPT !.m = Append(@, mission)], uid,
                                s.raw, text_commit_fails)
                  ELSE [w |-> PersistMission(W, mission),
                        ret |-> Len(W.m) + 1, extracted |-> FALSE]
          ELSE IF s.story # <<>>
          THEN FromText(W, uid, s.story[1], text_commit_fails)
          ELSE FromRecent(W, uid, recent, text_commit_fails)

\* get_mission_by_id: Mission.query.get
HasMission(W, mid) == mid \in 1..Len(W.m)

\* mutant: only the mission's existence is tested
CanResolveAnyStatus(W, mid) == HasMission(W, mid)

\* mutant: only a completed mission is refused
CanResolveUnlessCompleted(W, mid) ==
  HasMission(W, mid) /\ W.m[mid].status # "completed"

\* not (not mission or mission.status != 'active')
CanResolve(W, mid) == HasMission(W, mid) /\ W.m[mid].status = "active"

\* Mission.update_progress: sets progress, appends a progress entry
update_progress(W, mid, progress) ==
  [W EXCEPT !.m[mid].progress = progress,
            !.m[mid].progress_updates = Append(@, Update(<<progress>>, "none", <<>>))]

\* mutant: a missing mission is reported as updated
update_mission_progress_missing_ok(W, mid, progress) ==
  IF ~HasMission(W, mid) THEN [w |-> W, ret |-> TRUE]
  ELSE [w |-> update_progress(W, mid, progress), ret |-> TRUE]

\* update_mission_progress
update_mission_progress(W, mid, progress) ==
  IF ~HasMission(W, mid) THEN [w |-> W, ret |-> FALSE]
  ELSE [w |-> update_progress(W, mid, progress), ret |-> TRUE]

\* xp_rewards
xp_rewards == [d \in {"easy", "medium", "hard"} |->
                 CASE d = "easy" -> 50 [] d = "medium" -> 100 [] d = "hard" -> 200]

\* xp_rewards.get(mission.difficulty, 50)
XpReward(difficulty) ==
  IF difficulty \in DOMAIN xp_rewards THEN xp_rewards[difficulty] ELSE 50

\* complete_mission: status, completed_at, progress, progress entry
MarkCompleted(W, mid) ==
  [W EXCEPT !.m[mid].status = "completed",
            !.m[mid].progress = 100,
            !.m[mid].progress_updates =
               Append(@, Update(<<100>>, "completed", <<>>))]

\* mutant: the id is appended to completed_missions and left in active_missions
MoveToCompletedKeepActive(W, mid, uid) ==
  [W EXCEPT !.p[uid].completed_missions = Append(@, mid)]

\* complete_mission: active_missions.remove / completed_missions.append
MoveToCompleted(W, mid, uid) ==
  [W EXCEPT !.p[uid].active_missions =
               IF InList(@, mid) THEN RemoveFirst(@, mid) ELSE @,
            !.p[uid].completed_missions = Append(@, mid)]

\* complete_mission: the reward is written straight into currency_balances
AwardReward(W, mid, uid) ==
  LET b == W.p[uid].currency_balances
      c == W.m[mid].reward_currency
  IN [W EXCEPT !.p[uid].currency_balances =
        IF c \in DOMAIN b THEN Put(b, c, b[c] + W.m[mid].reward_amount)
        ELSE Put(b, c, W.m[mid].reward_amount)]

\* complete_mission: +2 with the giver, -3 with the target, each only for a
\* truthy id; the calls' results are not looked at
CompletionRelationships(W, mid, uid) ==
  LET g == W.m[mid].giver_id
      t == W.m[mid].target_id
      W1 == IF g # NoChar THEN change_character_relationship(W, uid, g, 2, TRUE).w
            ELSE W
  IN IF t # NoChar THEN change_character_relationship(W1, uid, t, -3, TRUE).w
     ELSE W1

\* complete_mission
complete_mission(W, mid, uid) ==
  IF ~CanResolve(W, mid) THEN [w |-> W, ret |-> FALSE]
  ELSE LET W1 == MarkCompleted(W, mid)
       IN IF uid \in DOMAIN W1.p
          THEN LET W2 == MoveToCompleted(W1, mid, uid)
                   W3 == AwardReward(W2, mid, uid)
                   W4 == add_experience_points(W3, uid,
                                               XpReward(W3.m[mid].difficulty)).w
               IN [w |-> CompletionRelationships(W4, mid, uid), ret |-> TRUE]
          ELSE [w |-> W1, ret |-> TRUE]

\* fail_mission; reason: <<>> for None or an empty string
fail_mission(W, mid, uid, reason) ==
  IF ~CanResolve(W, mid) THEN [w |-> W, ret |-> FALSE]
  ELSE LET W1 == [W EXCEPT !.m[mid].status = "failed",
                           !.m[mid].progress_updates =
                              Append(@, Update(<<>>, "failed", reason))]
       IN IF uid \in DOMAIN W1.p
          THEN LET W2 == [W1 EXCEPT
                            !.p[uid].active_missions =
                               IF InList(@, mid) THEN RemoveFirst(@, mid) ELSE @,
                            !.p[uid].failed_missions = Append(@, mid)]
                   g == W2.m[mid].giver_id
               IN [w |-> IF g # NoChar
                         THEN change_character_relationship(W2, uid, g, -1, TRUE).w
                         ELSE W2,
                   ret |-> TRUE]
          ELSE [w |-> W1, ret |-> TRUE]

(* ----------------------------- inputs ---------------------------------- *)

\* u1 when the run starts, as (dollars balance, characters met): a fresh
\* row, a player who met the giver, a player down to 1000 dollars who met
\* giver and target
StartPlayers == {<<5000, {}>>, <<5000, {1}>>, <<1000, {1, 2}>>}

\* user ids missions are created for
CreateUsers == {"u1"}

\* (giver_id, target_id, reward_amount, reward_currency): the details
\* extracted from story text, giver and target as resolved against the
\* character directory
StoryInputs == {<<NoChar, NoChar, 1500, "dollars">>, <<1, 2, 4000, "euros">>}

\* (giver_id, target_id, difficulty, reward_amount, reward_currency) of
\* structured mission payloads
PayloadInputs == {<<1, 2, "Medium", 1500, "dollars">>,
                  <<1, NoChar, "Legendary", 1500, "dollars">>}

\* reward amounts extract_mission_details can return for a currency: none,
\* the base, and the amounts on either side of 1.5 x base and 2.5 x base
RewardAmounts(currency) ==
  LET b == BASE_REWARDS[currency]
  IN {0, b, (3 * b) \div 2, (3 * b) \div 2 + 1, 2 * b,
      (5 * b) \div 2, (5 * b) \div 2 + 1, 4 * b}

\* progress values passed to update_mission_progress
ProgressValues == {50}

\* reasons passed to fail_mission (<<>>: none)
FailReasons == {<<"deadline passed">>}

\* mission ids callers pass: the rows that can exist
MissionArgs == 1..MaxMissions

\* requirement dicts passed to spend_currency, as item sequences
SpendInputs ==
  { <<>>,
    << <<"dollars", 600>> >>,
    << <<"dollars", 4000>> >>,
    << <<"diamonds", 100>>, <<"dollars", 4000>> >>,
    << <<"dollars", 400>>, <<"gold", 10>> >>,
    << <<"gold", -5>> >> }

\* (currency, amount) passed to add_currency
CreditInputs == {<<"dollars", 100>>, <<"gold", 10>>, <<"euros", -6000>>}

\* points passed to add_experience_points: a loss, nothing, a gain within
\* a level, a gain that takes a new player from level 1 to level 3
XpInputs == {-150, 0, 100, 400}

\* players that encounter characters during a run
EncounterUsers == {"u1"}

\* names a caller passes for a character
Names == {"Mara", "Mara the Smuggler"}

\* initial_relationship values passed to encounter_character
InitialRelationships == {0, 5}

\* values of datetime.utcnow() during a run; records made before it carry 0
Times == {1, 2}

\* characters direct change_character_relationship calls are made for
ChangeChars == {1}

\* (change_amount, a reason is given) passed to
\* change_character_relationship
ChangeInputs == {<<2, TRUE>>, <<-3, FALSE>>}

\* character ids CharacterEvolution rows and their edges are about
EvolutionChars == {1, 2, 3}

\* the characters that have a CharacterEvolution row for the user's story
\* when a run starts
EvolutionSets == {{1, 2}, {1, 2, 3}, {2, 3}}

\* the rows whose traits and role change during a run
EvolvingChars == {1}

\* traits passed to add_trait
Traits == {"brave", "cunning"}

\* roles passed to update_role
Roles == {"ally", "enemy"}

\* reasons passed to add_trait and update_role (<<>>: none)
EvolutionReasons == {<<"story">>}

\* relationship types and strengths passed to add_relationship
RelTypes == {"friend", "enemy"}
Strengths == {-2, 3}

\* change_data dicts; an absent key is <<>>
ChangeData(type, amount, inverse_type, inverse_amount) ==
  [type |-> type, amount |-> amount, inverse_type |-> inverse_type,
   inverse_amount |-> inverse_amount]

\* protagonist ids passed to update_character_relationships
Protagonists == {1}

\* relationship_changes dicts passed to update_character_relationships, as
\* item sequences: one target; a target that may have no row before one
\* that has, with inverse values; the defaults; the protagonist itself
BatchInputs ==
  { << <<2, ChangeData(<<"friend">>, <<3>>, <<>>, <<>>)>> >>,
    << <<3, ChangeData(<<"enemy">>, <<-2>>, <<"rival">>, <<1>>)>>,
       <<2, ChangeData(<<"friend">>, <<3>>, <<>>, <<>>)>> >>,
    << <<2, ChangeData(<<>>, <<>>, <<>>, <<4>>)>> >>,
    << <<1, ChangeData(<<"friend">>, <<3>>, <<"rival">>, <<1>>)>> >> }

\* story texts of StoryGeneration rows
GenerateTexts ==
  {StoryText(<<"figure of", "Mara", "reward?", "2,500", "euros">>),
   StoryText(<<"against", "shadow">>)}

\* mission payloads: ids given as digit strings; a giver_id given as a JSON
\* number; a payload without a title; names instead of ids
Payloads ==
  {Payload(TRUE, IdString(1), <<>>, IdString(2), <<>>, "Medium", 1500, "dollars"),
   Payload(TRUE, IdNumber(1), <<>>, IdAbsent, <<"shadow">>, "HARD", 4000, "euros"),
   Payload(FALSE, IdAbsent, <<"Mara">>, IdAbsent, <<>>, "HARD", 4000, "euros"),
   Payload(TRUE, IdAbsent, <<"Mara">>, IdAbsent, <<>>, "Legendary", 1500, "dollars")}

\* the StoryGeneration row generate_mission finds for story_id
StoryRecords ==
  {<<>>}
  \cup {<<TextStory(t)>> : t \in GenerateTexts}
  \cup {<<JsonStory(m, s)>> :
          m \in {<<>>} \cup {<<p>> : p \in Payloads},
          s \in {<<>>} \cup {<<t>> : t \in GenerateTexts}}

\* the generated_story of the user's most recent story
RecentStories == {<<>>} \cup {<<t>> : t \in GenerateTexts}

\* requirement dicts of the concurrent spend requests
RaceSpendInputs ==
  { << <<"dollars", 600>> >>,
    << <<"dollars", 4000>> >>,
    << <<"dollars", 400>>, <<"gold", 10>> >> }

\* phrases story texts are put together from: a giver, a giver that is a
\* company, both target forms, an objective, an objective cut short by an
\* apostrophe, a reward, a reward without a currency, and nothing
Fragments ==
  { <<"figure of", "Mara">>, <<"figure of", "shadow", "Corp">>,
    <<"on", "Mara", "'s", "plans">>, <<"against", "shadow">>,
    <<"mission--", "shadow", ".">>, <<"mission--", "on", "Mara", "'s", "plans", ".">>,
    <<"reward?", "2,500", "euros">>, <<"reward?", "2,500">>, <<>> }

\* the texts passed to extract_mission_details: every sequence of up to
\* MaxTextLen pieces, and every text of four fragments
StoryTexts ==
  (UNION {[1..n -> Pieces] : n \in 0..MaxTextLen})
  \cup {a \o b \o c \o d : a \in Fragments, b \in Fragments,
                          c \in Fragments, d \in Fragments}

\* arguments of extract_mission_details
ExtractInputs == {StoryText(t) : t \in StoryTexts} \cup {NotAString}

(* --------------------------- state machine ----------------------------- *)

\* A UserProgress row with the column defaults
NewPlayer ==
  [level |-> 1, experience_points |-> 0,
   currency_balances |-> DefaultBalances,
   active_missions |-> <<>>, completed_missions |-> <<>>,
   failed_missions |-> <<>>, encountered_characters |-> <<>>]

\* the last handler call: its name, its argument (the mission id of a
\* lifecycle call, <<user id, input>> of a ledger call, 0 for none) and its
\* return value
Call(op, arg, ret) == [op |-> op, arg |-> arg, ret |-> ret]

\* encounter_character(cid, name) for every character of a set
RECURSIVE MeetAll(_, _, _)
MeetAll(W, uid, cids) ==
  IF cids = {} THEN W
  ELSE LET c == CHOOSE x \in cids : TRUE
       IN MeetAll(encounter_character(W, uid, c, "Mara", 0, 0), uid, cids \ {c})

(* ------------------------- requests in flight -------------------------- *)

\* two requests, each with a session of its own
RequestIds == {1, 2}

\* a request: where it stands, the handler and its arguments, the rows its
\* session has loaded and what it has pending (<<>>: nothing), its result
Request(pc, op, uid, arg, mission, row, pending, ret) ==
  [pc |-> pc, op |-> op, uid |-> uid, arg |-> arg, mission |-> mission,
   row |-> row, pending |-> pending, ret |-> ret]

\* a request that has not arrived
Idle == Request("idle", "none", "none", 0, <<>>, <<>>, <<>>, FALSE)

NoRequests == [r \in RequestIds |-> Idle]

\* the UserProgress rows when a run starts, for a start player of u1
StartRows(sp) ==
  LET fresh == [m |-> <<>>, l |-> <<>>,
                p |-> [u \in PlayerIds |->
                         IF u = "u1"
                         THEN [NewPlayer EXCEPT !.currency_balances["dollars"] = sp[1]]
                         ELSE NewPlayer]]
  IN MeetAll(fresh, "u1", sp[2]).p

Init ==
  /\ missions = <<>>
  /\ ledger = <<>>
  /\ \E sp \in StartPlayers :
       LET fresh == [m |-> <<>>, l |-> <<>>,
                     p |-> [u \in PlayerIds |->
                              IF u = "u1"
                              THEN [NewPlayer EXCEPT !.currency_balances["dollars"] = sp[1]]
                              ELSE NewPlayer]]
       IN players = MeetAll(fresh, "u1", sp[2]).p
  /\ start = [u \in PlayerIds |-> players[u].currency_balances]
  /\ last = Call("init", 0, TRUE)
  /\ applied = [u \in PlayerIds |->
                  [c \in CharIds |->
                     IF c \in DOMAIN players[u].encountered_characters
                     THEN <<players[u].encountered_characters[c].relationship_level>>
                     ELSE <<>>]]
  /\ evolutions = [c \in {1, 2} |-> NewEvolution]
  /\ requests = NoRequests
  /\ users = <<>>
  /\ stories = <<>>

\* new players, and a story for which a set of characters has
\* CharacterEvolution rows
InitEvolution ==
  /\ missions = <<>>
  /\ ledger = <<>>
  /\ players = [u \in PlayerIds |-> NewPlayer]
  /\ start = [u \in PlayerIds |-> players[u].currency_balances]
  /\ last = Call("init", 0, TRUE)
  /\ applied = [u \in PlayerIds |-> [c \in CharIds |-> <<>>]]
  /\ \E es \in EvolutionSets : evolutions = [c \in es |-> NewEvolution]
  /\ requests = NoRequests
  /\ users = <<>>
  /\ stories = <<>>

\* the handler's writes, the record of the call, and the relationship
\* values passed so far. applied is kept by the direct relationship calls:
\* per player and character, the initial level of the first encounter
\* followed by the change_amount of every call that returned True.
CommitApplied(W, call, a) ==
  /\ missions' = W.m
  /\ players' = W.p
  /\ ledger' = W.l
  /\ last' = call
  /\ applied' = a
  /\ UNCHANGED <<start, evolutions, requests, users, stories>>

Commit(W, call) == CommitApplied(W, call, applied)

CreateFromStory ==
  \E uid \in CreateUsers, d \in StoryInputs :
    /\ Len(missions) < MaxMissions
    /\ Commit(create_mission_from_story(World, uid, d[1], d[2], d[3], d[4]),
              Call("create", Len(missions) + 1, TRUE))

GenerateMission ==
  \E uid \in CreateUsers, d \in PayloadInputs :
    /\ Len(missions) < MaxMissions
    /\ Commit(generate_mission(World, uid, d[1], d[2], d[3], d[4], d[5]),
              Call("create", Len(missions) + 1, TRUE))

\* progress_updates entries of a mission written by update_progress
NumProgressEntries(mid) ==
  Cardinality({i \in 1..Len(missions[mid].progress_updates) :
                 missions[mid].progress_updates[i].status = "none"})

UpdateProgress ==
  \E mid \in MissionArgs, p \in ProgressValues :
    /\ HasMission(World, mid) => NumProgressEntries(mid) < MaxLog
    /\ LET r == update_mission_progress(World, mid, p)
       IN Commit(r.w, Call("update_progress", mid, r.ret))

Complete ==
  \E mid \in MissionArgs, uid \in UserIds :
    /\ LET r == complete_mission(World, mid, uid)
       IN Commit(r.w, Call("complete", mid, r.ret))

Fail ==
  \E mid \in MissionArgs, uid \in UserIds, reason \in FailReasons :
    /\ LET r == fail_mission(World, mid, uid, reason)
       IN Commit(r.w, Call("fail", mid, r.ret))

Spend ==
  \E uid \in PlayerIds, R \in SpendInputs :
    /\ Len(ledger) + Len(R) <= MaxLedger
    /\ LET r == spend_currency(World, uid, R, "choice_cost")
       IN Commit(r.w, Call("spend", <<uid, R>>, r.ret))

\* a spend_currency call that reaches db.session.commit() and whose commit raises
SpendCommitFails ==
  \E uid \in PlayerIds, R \in SpendInputs :
    /\ can_afford(players[uid].currency_balances, R)
    /\ LET r == spend_currency_stored(World, uid, R, "choice_cost", TRUE)
       IN Commit(r.w, Call("spend_fault", <<uid, R>>, r.ret))

Credit ==
  \E uid \in PlayerIds, ca \in CreditInputs :
    /\ Len(ledger) < MaxLedger
    /\ LET r == add_currency(World, uid, ca[1], ca[2], "purchase")
       IN Commit(r.w, Call("credit", <<uid, ca>>, r.ret))

AddExperience ==
  \E uid \in PlayerIds, points \in XpInputs :
    /\ players[uid].experience_points + points <= MaxXp
    /\ LET r == add_experience_points(World, uid, points)
       IN Commit(r.w, Call(IF r.raised THEN "add_experience_raised"
                                       ELSE "add_experience",
                           <<uid, points>>, r.ret))

Encounter ==
  \E uid \in EncounterUsers, cid \in CharIds, name \in Names,
     init \in InitialRelationships, now \in Times :
    LET e == players[uid].encountered_characters
    IN /\ cid \in DOMAIN e => e[cid].encounters_count < MaxEncounters
       /\ \A c \in DOMAIN e : e[c].last_encounter <= now
       /\ CommitApplied(encounter_character(World, uid, cid, name, init, now),
                        Call("encounter", <<uid, cid, name, init>>, TRUE),
                        IF cid \in DOMAIN e THEN applied
                        ELSE [applied EXCEPT ![uid][cid] = <<init>>])

ChangeRelationship ==
  \E uid \in EncounterUsers, cid \in ChangeChars, ch \in ChangeInputs :
    /\ Len(applied[uid][cid]) <= MaxChanges
    /\ LET r == change_character_relationship(World, uid, cid, ch[1], ch[2])
       IN CommitApplied(r.w, Call("change_relationship", <<uid, cid, ch>>, r.ret),
                        IF r.ret
                        THEN [applied EXCEPT ![uid][cid] = Append(@, ch[1])]
                        ELSE applied)

\* the CharacterEvolution rows as a handler leaves them, and the record of
\* the call
CommitEvolution(E, call) ==
  /\ evolutions' = E
  /\ last' = call
  /\ UNCHANGED <<missions, players, ledger, start, applied, requests, users, stories>>

AddTrait ==
  \E cid \in EvolvingChars \cap DOMAIN evolutions, trait \in Traits,
     reason \in EvolutionReasons :
    /\ \/ InList(evolutions[cid].evolved_traits, trait)
       \/ Len(evolutions[cid].evolution_log) < MaxEvolutionLog
    /\ LET r == add_trait(evolutions[cid], trait, reason)
       IN CommitEvolution([evolutions EXCEPT ![cid] = r.ce],
                          Call("add_trait", <<cid, trait>>, r.ret))

UpdateRole ==
  \E cid \in EvolvingChars \cap DOMAIN evolutions, role \in Roles,
     reason \in EvolutionReasons :
    /\ Len(evolutions[cid].evolution_log) < MaxEvolutionLog
    /\ LET r == update_role(evolutions[cid], role, reason)
       IN CommitEvolution([evolutions EXCEPT ![cid] = r.ce],
                          Call("update_role", <<cid, role>>, r.ret))

EvolveTraits ==
  \E cid \in EvolvingChars :
    /\ cid \in DOMAIN evolutions =>
         Len(evolutions[cid].evolution_log) < MaxEvolutionLog
    /\ LET r == evolve_character_traits(evolutions, cid)
       IN CommitEvolution(r.e, Call("evolve", cid, r.ret))

\* the next value of datetime.utcnow(): later than every stamp written
Clock ==
  LET edges == {x \in (DOMAIN evolutions) \X EvolutionChars :
                  x[2] \in DOMAIN evolutions[x[1]].relationship_network}
      stamps == {evolutions[x[1]].relationship_network[x[2]].last_updated :
                   x \in edges}
  IN IF stamps = {} THEN 1
     ELSE 1 + CHOOSE m \in stamps : \A k \in stamps : k <= m

AddRelationship ==
  \E cid \in DOMAIN evolutions, target \in EvolutionChars,
     type \in RelTypes, strength \in Strengths :
    /\ Clock <= MaxStamp
    /\ CommitEvolution([evolutions EXCEPT ![cid] =
                           add_relationship(@, target, type, strength, Clock)],
                       Call("add_relationship", <<cid, target, type, strength>>, TRUE))

UpdateRelationships ==
  \E protagonist_id \in Protagonists, changes \in BatchInputs :
    /\ Clock <= MaxStamp
    /\ LET r == update_character_relationships(evolutions, protagonist_id,
                                               changes, Clock)
       IN CommitEvolution(r.e, Call("update_relationships",
                                    <<protagonist_id, changes>>, r.ret))

GenerateFromStory ==
  \E uid \in CreateUsers, story \in StoryRecords, recent \in RecentStories,
     raises_after_commit \in BOOLEAN, text_commit_fails \in BOOLEAN :
    /\ Len(missions) < MaxMissions
    /\ LET r == generate_mission_from(World, uid, story, recent,
                                      raises_after_commit, text_commit_fails)
       IN Commit(r.w, Call("generate", <<uid, story, recent>>,
                           [mission |-> r.ret, extracted |-> r.extracted]))

\* new players, and an argument a caller is about to pass to
\* extract_mission_details
InitExtraction ==
  /\ missions = <<>>
  /\ ledger = <<>>
  /\ players = [u \in PlayerIds |-> NewPlayer]
  /\ start = [u \in PlayerIds |-> players[u].currency_balances]
  /\ \E story_text \in ExtractInputs : last = Call("story_text", story_text, <<>>)
  /\ applied = [u \in PlayerIds |-> [c \in CharIds |-> <<>>]]
  /\ evolutions = [c \in {1, 2} |-> NewEvolution]
  /\ requests = NoRequests
  /\ users = <<>>
  /\ stories = <<>>

Extract ==
  /\ last.op = "story_text"
  /\ last' = Call("extract", last.arg, extract_mission_details(last.arg))
  /\ UNCHANGED <<missions, players, ledger, start, applied, evolutions,
               requests, users, stories>>

\* u1 holds one active mission created from a story; no request has arrived
InitRaceResolve ==
  /\ \E sp \in StartPlayers, d \in StoryInputs :
       LET W == create_mission_from_story(
                  [m |-> <<>>, p |-> StartRows(sp), l |-> <<>>],
                  "u1", d[1], d[2], d[3], d[4])
       IN missions = W.m /\ players = W.p
  /\ ledger = <<>>
  /\ start = [u \in PlayerIds |-> players[u].currency_balances]
  /\ last = Call("init", 0, TRUE)
  /\ applied = [u \in PlayerIds |->
                  [c \in CharIds |->
                     IF c \in DOMAIN players[u].encountered_characters
                     THEN <<players[u].encountered_characters[c].relationship_level>>
                     ELSE <<>>]]
  /\ evolutions = [c \in {1, 2} |-> NewEvolution]
  /\ requests = NoRequests
  /\ users = <<>>
  /\ stories = <<>>

\* a complete_mission / fail_mission request arrives: get_mission_by_id and
\* the status test, on the mission row as its session reads it now
ReadMission ==
  \E r \in RequestIds, op \in {"complete", "fail"},
     mid \in 1..Len(missions), uid \in {"u1"} :
    /\ requests[r].pc = "idle"
    /\ requests' =
         [requests EXCEPT ![r] =
            IF ~CanResolve(World, mid)
            THEN Request("done", op, uid, mid, <<>>, <<>>, <<>>, FALSE)
            ELSE Request("read", op, uid, mid, <<missions[mid]>>, <<>>, <<>>,
                         FALSE)]
    /\ UNCHANGED <<missions, players, ledger, start, last, applied,
                   evolutions, users, stories>>

\* the request changes its mission object, loads the UserProgress row as it
\* is stored now and applies the handler's effects to what it holds
LoadUser ==
  \E r \in RequestIds, reason \in FailReasons :
    /\ requests[r].pc = "read"
    /\ LET q == requests[r]
           held == [World EXCEPT !.m[q.arg] = q.mission[1]]
           res == IF q.op = "complete"
                  THEN complete_mission(held, q.arg, q.uid)
                  ELSE fail_mission(held, q.arg, q.uid, reason)
       IN requests' =
            [requests EXCEPT ![r] =
               Request("loaded", q.op, q.uid, q.arg, <<res.w.m[q.arg]>>,
                       <<res.w.p[q.uid]>>,
                       SubSeq(res.w.l, Len(ledger) + 1, Len(res.w.l)),
                       res.ret)]
    /\ UNCHANGED <<missions, players, ledger, start, last, applied,
                   evolutions, users, stories>>

\* db.session.commit(): the rows the request holds replace the stored rows,
\* its new Transaction rows are inserted
CommitResolve ==
  \E r \in RequestIds :
    /\ requests[r].pc = "loaded"
    /\ requests[r].op \in {"complete", "fail"}
    /\ LET q == requests[r]
       IN /\ missions' = [missions EXCEPT ![q.arg] = q.mission[1]]
          /\ players' = [players EXCEPT ![q.uid] = q.row[1]]
          /\ ledger' = ledger \o q.pending
          /\ last' = Call(q.op, q.arg, q.ret)
          /\ requests' = [requests EXCEPT ![r].pc = "done"]
    /\ UNCHANGED <<start, applied, evolutions, users, stories>>

\* a spend request arrives: its session loads the UserProgress row
LoadPlayer ==
  \E r \in RequestIds, uid \in {"u1"}, R \in RaceSpendInputs :
    /\ requests[r].pc = "idle"
    /\ requests' =
         [requests EXCEPT ![r] =
            Request("loaded", "spend", uid, R, <<>>, <<players[uid]>>, <<>>,
                    FALSE)]
    /\ UNCHANGED <<missions, players, ledger, start, last, applied,
                   evolutions, users, stories>>

\* spend_currency on the row the request holds: can_afford, the debits and
\* the commit, which stores the balances it computed and its Transactions
SpendLoaded ==
  \E r \in RequestIds :
    /\ requests[r].pc = "loaded"
    /\ requests[r].op = "spend"
    /\ LET q == requests[r]
           held == [World EXCEPT !.p[q.uid] = q.row[1]]
           res == spend_currency(held, q.uid, q.arg, "choice_cost")
       IN /\ players' =
               IF res.ret
               THEN [players EXCEPT ![q.uid].currency_balances =
                                       res.w.p[q.uid].currency_balances]
               ELSE players
          /\ ledger' = ledger \o SubSeq(res.w.l, Len(ledger) + 1, Len(res.w.l))
          /\ last' = Call("spend", <<q.uid, q.arg>>, res.ret)
          /\ requests' = [requests EXCEPT ![r].pc = "done", ![r].ret = res.ret]
    /\ UNCHANGED <<missions, start, applied, evolutions, users, stories>>

(* --------------------- HTTP layer (server/app.py) ----------------------- *)

\* user ids the requests carry
ServerUsers == {"u1", "u2"}

\* the user record generate_story_route creates; None is 0
NewServerUser ==
  [current_story_id |-> 0, level |-> 1, experience_points |-> 0,
   currency_balances |->
     [c \in {"diamonds", "pounds", "euros", "yen", "dollars"} |->
        IF c = "diamonds" THEN 500 ELSE 5000],
   active_missions |-> <<>>, completed_missions |-> <<>>,
   choice_history |-> <<>>]

\* what generate_story and json.loads hand to a route: the first outcome is
\* an exception, the others the parsed story object, whose 'mission' key is
\* absent, null (<<>>) or an object; a field of it that is absent is <<>>
Generated ==
  { [raises |-> TRUE, has_mission |-> FALSE, mission |-> <<>>],
    [raises |-> FALSE, has_mission |-> FALSE, mission |-> <<>>],
    [raises |-> FALSE, has_mission |-> TRUE, mission |-> <<>>],
    [raises |-> FALSE, has_mission |-> TRUE,
     mission |-> << [reward_currency |-> <<>>, reward_amount |-> <<>>] >>],
    [raises |-> FALSE, has_mission |-> TRUE,
     mission |-> << [reward_currency |-> <<"euros">>,
                     reward_amount |-> <<2500>>] >>] }

\* currency_requirements of the choices
ChoiceCosts == {<<>>, << <<"dollars", 600>> >>, << <<"dollars", 6000>> >>}

\* the module-level dicts users and stories
ServerState == [u |-> users, s |-> stories]

\* an entry of stories
StoryEntry(story_id, uid, parent_story_id) ==
  [id |-> story_id, user_id |-> uid, parent_story_id |-> parent_story_id]

\* generate_story_route(user_id), the generation giving g
generate_story_route(S, uid, g) ==
  LET U == IF S.u[uid] = <<>>
           THEN [S.u EXCEPT ![uid] = <<NewServerUser>>]
           ELSE S.u
      row == U[uid][1]
      story_id == Len(S.s) + 1
      saved == Append(S.s, StoryEntry(story_id, uid, 0))
      mission_id == Len(row.active_missions) + 1
  IN IF g.raises THEN [u |-> U, s |-> S.s, ret |-> 500]
     ELSE IF ~g.has_mission
     THEN [u |-> [U EXCEPT ![uid] = <<[row EXCEPT !.current_story_id = story_id]>>],
           s |-> saved, ret |-> 200]
     ELSE IF g.mission = <<>>
     THEN [u |-> U, s |-> saved, ret |-> 500]
     ELSE LET \* dict.get(key, default) on a field that may be absent
              OrDefault(field, default) ==
                IF field = <<>> THEN default ELSE field[1]
              mission ==
                [id |-> mission_id, status |-> "active",
                 reward_currency |-> OrDefault(g.mission[1].reward_currency, "dollars"),
                 reward_amount |-> OrDefault(g.mission[1].reward_amount, 1000),
                 progress |-> 0, story_id |-> story_id]
          IN [u |-> [U EXCEPT ![uid] =
                       <<[row EXCEPT !.active_missions = Append(@, mission),
                                     !.current_story_id = story_id]>>],
              s |-> saved, ret |-> 200]

\* the "Spend currency" loop of make_choice
RECURSIVE SpendAll(_, _)
SpendAll(b, R) ==
  IF R = <<>> THEN b
  ELSE SpendAll(Put(b, R[1][1], Get(b, R[1][1]) - R[1][2]), Tail(R))

\* make_choice(user_id, story_id, choice_text, currency_requirements), the
\* generation of the next segment giving g
make_choice(S, uid, story_id, choice_text, R, g) ==
  IF S.u[uid] = <<>> THEN [u |-> S.u, s |-> S.s, ret |-> 404]
  ELSE IF story_id \notin 1..Len(S.s) THEN [u |-> S.u, s |-> S.s, ret |-> 404]
  ELSE LET user_data == S.u[uid][1] IN
    IF \E i \in 1..Len(R) : Get(user_data.currency_balances, R[i][1]) < R[i][2]
    THEN [u |-> S.u, s |-> S.s, ret |-> 400]
    ELSE
      LET chosen == [user_data EXCEPT
                       !.currency_balances = SpendAll(@, R),
                       !.choice_history =
                          Append(@, [choice_text |-> choice_text,
                                     story_id |-> story_id])]
          new_story_id == Len(S.s) + 1
      IN IF g.raises
         THEN [u |-> [S.u EXCEPT ![uid] = <<chosen>>], s |-> S.s, ret |-> 500]
         ELSE [u |-> [S.u EXCEPT ![uid] =
                        <<[chosen EXCEPT !.current_story_id = new_story_id]>>],
               s |-> Append(S.s, StoryEntry(new_story_id, uid, story_id)),
               ret |-> 200]

\* complete_mission_route(user_id, mission_id)
complete_mission_route(S, uid, mission_id) ==
  IF S.u[uid] = <<>> THEN [u |-> S.u, s |-> S.s, ret |-> 404]
  ELSE
    LET user_data == S.u[uid][1]
        found == {i \in 1..Len(user_data.active_missions) :
                    user_data.active_missions[i].id = mission_id}
    IN IF found = {} THEN [u |-> S.u, s |-> S.s, ret |-> 404]
       ELSE
         LET i == CHOOSE k \in found : \A j \in found : k <= j
             mission == [user_data.active_missions[i] EXCEPT
                           !.status = "completed", !.progress = 100]
             experience_points == user_data.experience_points + 100
             new_level == 1 + ISqrt(experience_points \div 100)
         IN [u |-> [S.u EXCEPT ![uid] =
                      <<[user_data EXCEPT
                           !.active_missions =
                              SubSeq(@, 1, i - 1) \o SubSeq(@, i + 1, Len(@)),
                           !.completed_missions = Append(@, mission),
                           !.currency_balances =
                              Put(@, mission.reward_currency,
                                  Get(@, mission.reward_currency)
                                    + mission.reward_amount),
                           !.experience_points = experience_points,
                           !.level = IF new_level > @ THEN new_level ELSE @]>>],
             s |-> S.s, ret |-> 200]

\* the server starts: both dicts are empty
InitServer ==
  /\ missions = <<>>
  /\ ledger = <<>>
  /\ players = [u \in PlayerIds |-> NewPlayer]
  /\ start = [u \in PlayerIds |-> players[u].currency_balances]
  /\ last = Call("init", 0, TRUE)
  /\ applied = [u \in PlayerIds |-> [c \in CharIds |-> <<>>]]
  /\ evolutions = [c \in {1, 2} |-> NewEvolution]
  /\ requests = NoRequests
  /\ users = [u \in ServerUsers |-> <<>>]
  /\ stories = <<>>

\* POST /api/story/generate
GenerateStoryRoute ==
  \E uid \in ServerUsers, g \in Generated :
    /\ Len(stories) < MaxStories
    /\ LET r == generate_story_route(ServerState, uid, g)
       IN /\ users' = r.u
          /\ stories' = r.s
          /\ UNCHANGED <<missions, players, ledger, start, applied,
                         evolutions, requests>>
          /\ last' = Call("generate_story", <<uid>>, r.ret)

\* POST /api/story/choice
MakeChoice ==
  \E uid \in ServerUsers, story_id \in 1..MaxStories,
     choice_text \in {"bribe the guard"}, R \in ChoiceCosts, g \in Generated :
    /\ Len(stories) < MaxStories
    /\ users[uid] # <<>> => Len(users[uid][1].choice_history) < MaxChoices
    /\ LET r == make_choice(ServerState, uid, story_id, choice_text, R, g)
       IN /\ users' = r.u
          /\ stories' = r.s
          /\ UNCHANGED <<missions, players, ledger, start, applied,
                         evolutions, requests>>
          /\ last' = Call("make_choice", <<uid, story_id, R>>, r.ret)

\* POST /api/missions/complete
CompleteMissionRoute ==
  \E uid \in ServerUsers, mission_id \in 1..MaxStories :
    /\ LET r == complete_mission_route(ServerState, uid, mission_id)
       IN /\ users' = r.u
          /\ stories' = r.s
          /\ UNCHANGED <<missions, players, ledger, start, applied,
                         evolutions, requests>>
          /\ last' = Call("complete_mission_route", <<uid, mission_id>>, r.ret)

\* the mission lifecycle
Next == CreateFromStory \/ GenerateMission \/ UpdateProgress \/ Complete \/ Fail

Spec == Init /\ [][Next]_vars

\* the ledger alone
NextLedger == Spend \/ SpendCommitFails \/ Credit

SpecLedger == Init /\ [][NextLedger]_vars

\* experience and levels alone
NextProgression == AddExperience

SpecProgression == Init /\ [][NextProgression]_vars

\* the player's character records alone
NextRelationships == Encounter \/ ChangeRelationship

SpecRelationships == Init /\ [][NextRelationships]_vars

\* traits, roles and the evolution log
NextEvolution == AddTrait \/ UpdateRole \/ EvolveTraits

SpecEvolution == InitEvolution /\ [][NextEvolution]_vars

\* the relationship networks of the characters
NextNetwork == AddRelationship \/ UpdateRelationships

SpecNetwork == InitEvolution /\ [][NextNetwork]_vars

\* mission extraction from story text
NextExtraction == Extract

SpecExtraction == InitExtraction /\ [][NextExtraction]_vars

\* generate_mission on stored stories
NextGenerate == GenerateFromStory

SpecGenerate == Init /\ [][NextGenerate]_vars

\* two complete_mission / fail_mission requests side by side
NextRaceResolve == ReadMission \/ LoadUser \/ CommitResolve

SpecRaceResolve == InitRaceResolve /\ [][NextRaceResolve]_vars

\* two spend_currency requests side by side
NextRaceSpend == LoadPlayer \/ SpendLoaded

SpecRaceSpend == Init /\ [][NextRaceSpend]_vars

\* the HTTP layer, one request at a time
NextServer == GenerateStoryRoute \/ MakeChoice \/ CompleteMissionRoute

SpecServer == InitServer /\ [][NextServer]_vars

(* ============================ properties =============================== *)

\* currencies a balance may be held in: the five of the game, and one that
\* no row starts with
AllCurrencies == DOMAIN DefaultBalances \cup {"gold"}

\* sum of the credits minus the debits the ledger records for a user and a
\* currency
RECURSIVE LedgerNet(_, _, _)
LedgerNet(l, u, c) ==
  IF l = <<>> THEN 0
  ELSE LedgerNet(Tail(l), u, c)
       + (IF l[1].user_id = u /\ l[1].to_currency = c THEN l[1].amount ELSE 0)
       - (IF l[1].user_id = u /\ l[1].from_currency = c THEN l[1].amount ELSE 0)

\* number of times x occurs in list s
CountIn(s, x) == Cardinality({i \in 1..Len(s) : s[i] = x})

\* number of times a mission id occurs in the three mission lists of all
\* players
Occurrences(mid) ==
  LET RECURSIVE Sum(_)
      Sum(U) == IF U = {} THEN 0
                ELSE LET u == CHOOSE x \in U : TRUE
                     IN CountIn(players[u].active_missions, mid)
                        + CountIn(players[u].completed_missions, mid)
                        + CountIn(players[u].failed_missions, mid)
                        + Sum(U \ {u})
  IN Sum(PlayerIds)

\* the mission exists and is in a terminal state
Terminal(mid) ==
  mid \in 1..Len(missions) /\ missions[mid].status \in {"completed", "failed"}

\* the mission exists and is active
Active(mid) == mid \in 1..Len(missions) /\ missions[mid].status = "active"

\* the last call was a successful Complete of mission mid made with user id
\* u: the id is on u's completed list
CompletedBy(u, mid) ==
  /\ last.op = "complete" /\ last.ret /\ last.arg = mid
  /\ InList(players[u].completed_missions, mid)

(* C1: a successful Complete credits the reward through the ledger: for   *)
(* every mission on a player's completed list the ledger holds a          *)
(* mission_reward entry to that player of rewardAmount in rewardCurrency, *)
(* and every balance equals its starting value plus the ledger's credits  *)
(* minus its debits (no balance change without a ledger entry).           *)
C1_RewardThroughLedger ==
  \A u \in PlayerIds :
    /\ \A i \in 1..Len(players[u].completed_missions) :
         LET m == missions[players[u].completed_missions[i]]
         IN \E k \in 1..Len(ledger) :
              ledger[k] = Transaction(u, "mission_reward", NoCurrency,
                                      m.reward_currency, m.reward_amount)
    /\ \A c \in AllCurrencies :
         Get(players[u].currency_balances, c)
           = Get(start[u], c) + LedgerNet(ledger, u, c)

(* C2: every created mission's id occurs exactly once in the active,      *)
(* completed and failed lists of the players taken together.              *)
C2_IdInExactlyOneSet ==
  \A mid \in 1..Len(missions) : Occurrences(mid) = 1

(* C3: a Complete or Fail call on a mission that is already completed or  *)
(* failed returns failure and changes no mission, player or ledger state. *)
C3_SecondResolveIsNoOp ==
  [][ (last'.op \in {"complete", "fail"} /\ Terminal(last'.arg))
        => (~last'.ret /\ UNCHANGED <<missions, players, ledger>>) ]_vars

\* a Complete call was refused on a failed mission
C3_Witness ==
  last.op = "complete" /\ ~last.ret /\ Terminal(last.arg)
    /\ missions[last.arg].status = "failed"

(* C4: a mission's status changes only from active, and only to completed *)
(* or failed; a completed or failed mission keeps its status under every  *)
(* later Complete, Fail and UpdateProgress call.                          *)
C4_StatusOneWay ==
  [][ \A mid \in 1..Len(missions) :
        /\ mid \in 1..Len(missions')
        /\ missions'[mid].status # missions[mid].status
             => /\ missions[mid].status = "active"
                /\ missions'[mid].status \in {"completed", "failed"} ]_vars

\* UpdateProgress ran on a completed mission, which is still completed
C4_Witness ==
  last.op = "update_progress" /\ last.ret /\ Terminal(last.arg)
    /\ missions[last.arg].status = "completed"
    /\ missions[last.arg].progress = 50

(* C5: Complete is all-or-nothing: a mission is completed only together   *)
(* with all its sub-effects - the id on a player's completed list and the *)
(* relationship changes with its giver (+2) and its target (-3) applied   *)
(* to that player; when a sub-step cannot be done the mission stays       *)
(* active.                                                                *)
C5_AllOrNothing ==
  \A mid \in 1..Len(missions) :
    missions[mid].status = "completed" =>
      \E u \in PlayerIds :
        LET e == players[u].encountered_characters
            g == missions[mid].giver_id
            t == missions[mid].target_id
        IN /\ InList(players[u].completed_missions, mid)
           /\ g # NoChar =>
                g \in DOMAIN e /\ InList(e[g].relationship_history, 2)
           /\ t # NoChar =>
                t \in DOMAIN e /\ InList(e[t].relationship_history, -3)

\* currencies and amounts of the requirement dicts the ledger properties
\* range over: "gold" is in no balance, 500 is the diamonds balance exactly
ReqCurrencies == {"dollars", "diamonds", "gold"}
ReqAmounts == {-5, 0, 500, 501, 4000}

\* every requirement dict of at most two items, as item sequences
ReqItems == ReqCurrencies \X ReqAmounts
ReqMaps ==
  {<<>>}
  \cup {<<x>> : x \in ReqItems}
  \cup {R \in {<<x, y>> : x \in ReqItems, y \in ReqItems} : R[1][1] # R[2][1]}

\* some item of R asks for more than the balance holds (absent: 0)
Unaffordable(b, R) ==
  \E i \in 1..Len(R) :
    (IF R[i][1] \in DOMAIN b THEN b[R[i][1]] ELSE 0) < R[i][2]

(* C6: spend with a requirements map in which at least one currency is    *)
(* unaffordable returns failure, debits no currency of the map and        *)
(* appends no ledger entry.                                               *)
C6_FailedSpendDebitsNothing ==
  \A u \in PlayerIds, R \in ReqMaps :
    Unaffordable(players[u].currency_balances, R) =>
      LET r == spend_currency(World, u, R, "choice_cost")
      IN ~r.ret /\ r.w.p = players /\ r.w.l = ledger /\ r.w.m = missions

\* a spend was refused whose first item alone the player could have paid
C6_Witness ==
  /\ last.op = "spend" /\ ~last.ret
  /\ Len(last.arg[2]) = 2
  /\ Get(players[last.arg[1]].currency_balances, last.arg[2][1][1])
       >= last.arg[2][1][2]
  /\ last.arg[2][1][2] > 0
  /\ ledger = <<>>
  /\ players[last.arg[1]].currency_balances = start[last.arg[1]]

(* C7: after every sequence of credit and spend calls, each balance of    *)
(* each player equals its starting value plus the amounts of the ledger   *)
(* entries crediting that currency minus those debiting it.               *)
C7_BalanceMatchesLedger ==
  \A u \in PlayerIds, c \in AllCurrencies :
    Get(players[u].currency_balances, c)
      = Get(start[u], c) + LedgerNet(ledger, u, c)

\* the ledger holds a debit and a credit, and a balance has moved
C7_Witness ==
  /\ \E i, j \in 1..Len(ledger) :
       /\ ledger[i].from_currency # NoCurrency
       /\ ledger[j].to_currency # NoCurrency
       /\ ledger[i].user_id = ledger[j].user_id
  /\ \E u \in PlayerIds : players[u].currency_balances # start[u]

(* C8: can_afford(B, R) is true exactly when every currency of R has      *)
(* B[c] >= R[c], a currency absent from B counting as 0; the empty R      *)
(* always affords.                                                        *)
C8_CanAffordIffAllCovered ==
  \A u \in PlayerIds, R \in ReqMaps :
    LET b == players[u].currency_balances
    IN /\ can_afford(b, R) = ~Unaffordable(b, R)
       /\ can_afford(b, <<>>)

\* a spend was refused because of a currency the player holds no balance in
C8_Witness ==
  /\ last.op = "spend" /\ ~last.ret
  /\ LET b == players[last.arg[1]].currency_balances
         R == last.arg[2]
     IN \E i \in 1..Len(R) :
          /\ R[i][1] \notin DOMAIN b /\ R[i][2] > 0
          /\ \A j \in 1..Len(R) : j # i => b[R[j][1]] >= R[j][2]

\* what Complete(mid, u) leaves for a player u holding the active mission
\* mid on the active list, but for the reward balance
CompleteMovesMission(mid, u) ==
  LET r == complete_mission(World, mid, u)
  IN /\ r.ret
     /\ r.w.m[mid].status = "completed"
     /\ r.w.m[mid].progress = 100
     /\ r.w.m[mid].progress_updates =
          Append(missions[mid].progress_updates,
                 [progress |-> <<100>>, status |-> "completed", reason |-> <<>>])
     /\ InList(r.w.p[u].completed_missions, mid)
     /\ ~InList(r.w.p[u].active_missions, mid)

(* C9 as claimed: for a player with the active mission m on the active    *)
(* list, Complete(m) succeeds, leaves m completed with progress 100 and   *)
(* one more log entry, the id moved from the active to the completed      *)
(* list, and the balance of rewardCurrency higher by rewardAmount.        *)
C9_CompleteRewardsExactly ==
  \A mid \in MissionArgs, u \in PlayerIds :
    (Active(mid) /\ InList(players[u].active_missions, mid)) =>
      /\ CompleteMovesMission(mid, u)
      /\ LET c == missions[mid].reward_currency
         IN Get(complete_mission(World, mid, u).w.p[u].currency_balances, c)
              = Get(players[u].currency_balances, c) + missions[mid].reward_amount

(* C9 amended: as claimed, but the balance of rewardCurrency is higher by  *)
(* rewardAmount plus the level-up bonus 50 x newLevel when the completion *)
(* raises the player's level and rewardCurrency is the bonus currency     *)
(* (euros).                                                               *)
C9_CompleteRewardsWithBonus ==
  \A mid \in MissionArgs, u \in PlayerIds :
    (Active(mid) /\ InList(players[u].active_missions, mid)) =>
      /\ CompleteMovesMission(mid, u)
      /\ LET c == missions[mid].reward_currency
             after == complete_mission(World, mid, u).w.p[u]
         IN Get(after.currency_balances, c)
              = Get(players[u].currency_balances, c) + missions[mid].reward_amount
                + (IF c = "euros" /\ after.level > players[u].level
                   THEN 50 * after.level ELSE 0)

\* the scenario: u1 started with 1000 dollars, completed a mission worth
\* 1500 dollars and holds 2500
C9_Witness ==
  /\ CompletedBy("u1", 1)
  /\ start["u1"]["dollars"] = 1000
  /\ missions[1].reward_currency = "dollars" /\ missions[1].reward_amount = 1500
  /\ players["u1"].currency_balances["dollars"] = 2500
  /\ players["u1"].active_missions = <<>>

\* the fixed table of the specification
TableXp(d) ==
  CASE d = "easy" -> 50 [] d = "medium" -> 100 [] d = "hard" -> 200

(* C10: a successful Complete raises the player's experience points by    *)
(* the table value of the mission's difficulty, which is one of easy      *)
(* (50), medium (100), hard (200), for every mission created, also from a *)
(* structured payload.                                                    *)
C10_XpByTable ==
  \A mid \in MissionArgs, u \in PlayerIds :
    Active(mid) =>
      LET r == complete_mission(World, mid, u)
      IN /\ r.ret
         /\ missions[mid].difficulty \in {"easy", "medium", "hard"}
         /\ r.w.p[u].experience_points
              = players[u].experience_points + TableXp(missions[mid].difficulty)

\* relationship level of player record p with character c; 0, the default
\* initial level, when there is no record
LevelWith(p, c) ==
  IF c \in DOMAIN p.encountered_characters
  THEN p.encountered_characters[c].relationship_level ELSE 0

\* player record p holds a relationship record for c at level v
HasLevel(p, c, v) ==
  c \in DOMAIN p.encountered_characters
    /\ p.encountered_characters[c].relationship_level = v

(* C11: a successful Complete by the player holding the mission changes   *)
(* the player's relationship level with the mission's giver by exactly +2 *)
(* and with its target by exactly -3; an update whose character id is     *)
(* absent from the mission is skipped and the rest of Complete still      *)
(* happens.                                                               *)
C11_CompleteRelationshipDeltas ==
  \A mid \in MissionArgs, u \in PlayerIds :
    (Active(mid) /\ InList(players[u].active_missions, mid)) =>
      LET r == complete_mission(World, mid, u)
          g == missions[mid].giver_id
          t == missions[mid].target_id
      IN /\ r.ret
         /\ r.w.m[mid].status = "completed"
         /\ InList(r.w.p[u].completed_missions, mid)
         /\ g # NoChar => HasLevel(r.w.p[u], g, LevelWith(players[u], g) + 2)
         /\ t # NoChar => HasLevel(r.w.p[u], t, LevelWith(players[u], t) - 3)
         /\ \A c \in CharIds \ {g, t} :
              LevelWith(r.w.p[u], c) = LevelWith(players[u], c)

\* reasons a Fail call may carry: none, or a text
AnyReason == {<<>>, <<"deadline passed">>}

(* C12: a successful Fail on an active mission sets status to failed,     *)
(* appends one failure log entry (with the reason when given), moves the  *)
(* id from the active to the failed list, lowers the relationship with    *)
(* the giver by exactly 1 and grants nothing: balances, ledger,           *)
(* experience points and level are unchanged.                             *)
C12_FailEffects ==
  \A mid \in MissionArgs, u \in PlayerIds, reason \in AnyReason :
    (Active(mid) /\ InList(players[u].active_missions, mid)) =>
      LET r == fail_mission(World, mid, u, reason)
          g == missions[mid].giver_id
      IN /\ r.ret
         /\ r.w.m[mid].status = "failed"
         /\ r.w.m[mid].progress_updates =
              Append(missions[mid].progress_updates,
                     [progress |-> <<>>, status |-> "failed", reason |-> reason])
         /\ ~InList(r.w.p[u].active_missions, mid)
         /\ r.w.p[u].failed_missions = Append(players[u].failed_missions, mid)
         /\ g # NoChar => HasLevel(r.w.p[u], g, LevelWith(players[u], g) - 1)
         /\ r.w.p[u].currency_balances = players[u].currency_balances
         /\ r.w.p[u].experience_points = players[u].experience_points
         /\ r.w.p[u].level = players[u].level
         /\ r.w.l = ledger

\* the world in which player uid's active list already holds the id the
\* next mission row gets
HoldingNextId(uid) ==
  [World EXCEPT !.p[uid].active_missions = Append(@, Len(missions) + 1)]

C14_CreditRejectsNonPositive ==
  [][ last'.op = "credit" =>
        LET u == last'.arg[1]
            c == last'.arg[2][1]
            a == last'.arg[2][2]
        IN IF a <= 0
           THEN ~last'.ret /\ UNCHANGED <<players, ledger>>
           ELSE /\ last'.ret
                /\ Get(players'[u].currency_balances, c)
                     = Get(players[u].currency_balances, c) + a
                /\ Len(ledger') = Len(ledger) + 1 ]_vars

\* the last call was add_experience_points, returned or raised
AddedExperience(call) == call.op \in {"add_experience", "add_experience_raised"}

(* C15: addExperience with points < 0 fails and leaves experience points, *)
(* level, balances and ledger unchanged; experience points are never      *)
(* negative.                                                              *)
C15_NegativePointsRejected ==
  /\ [][ (AddedExperience(last') /\ last'.arg[2] < 0)
           => (last'.op = "add_experience_raised"
                 /\ UNCHANGED <<players, ledger>>) ]_vars
  /\ [](\A u \in PlayerIds : players[u].experience_points >= 0)

\* level l is 1 + floor(sqrt(xp / 100))
IsLevelOf(l, xp) ==
  l >= 1 /\ 100 * (l - 1) * (l - 1) <= xp /\ xp < 100 * l * l

(* C16: after every addExperience call the player's level is              *)
(* 1 + floor(sqrt(experiencePoints / 100)); addExperience(p, 0) returns   *)
(* false and does not change the level.                                   *)
C16_LevelMatchesXp ==
  /\ AddedExperience(last) =>
       IsLevelOf(players[last.arg[1]].level,
                 players[last.arg[1]].experience_points)
  /\ \A u \in PlayerIds :
       LET r == add_experience_points(World, u, 0)
       IN ~r.ret /\ r.w.p[u].level = players[u].level

(* C17: no step lowers a player's level.                                  *)
C17_LevelNeverDecreases ==
  [][ \A u \in PlayerIds : players'[u].level >= players[u].level ]_vars

\* a loss of points left a player below the level's threshold, level kept
C17_Witness ==
  /\ last.op = "add_experience" /\ last.arg[2] < 0
  /\ players[last.arg[1]].level = 3
  /\ players[last.arg[1]].experience_points = 250

\* the level of the specification for xp >= 0
SpecLevel(xp) == CHOOSE l \in 1..(xp + 1) : IsLevelOf(l, xp)

(* C18: an addExperience call that returns and raises the level, by one   *)
(* or several levels, credits one level-up bonus of 50 x newLevel in      *)
(* euros through the ledger (one level_up entry) and returns true; one    *)
(* that does not raise the level credits nothing and returns false.       *)
C18_OneBonusPerLevelUp ==
  \A u \in PlayerIds, points \in XpInputs :
    LET r == add_experience_points(World, u, points)
        xp == players[u].experience_points + points
        b == players[u].currency_balances
    IN ~r.raised =>
         IF SpecLevel(xp) > players[u].level
         THEN /\ r.ret
              /\ r.w.p[u].level = SpecLevel(xp)
              /\ r.w.l = Append(ledger,
                                [user_id |-> u, type |-> "level_up",
                                 from_currency |-> NoCurrency,
                                 to_currency |-> "euros",
                                 amount |-> 50 * SpecLevel(xp)])
              /\ r.w.p[u].currency_balances
                   = [b EXCEPT !["euros"] = @ + 50 * SpecLevel(xp)]
         ELSE /\ ~r.ret
              /\ r.w.p[u].level = players[u].level
              /\ r.w.l = ledger
              /\ r.w.p[u].currency_balances = b

\* a new player went from level 1 to level 3 in one call and holds one
\* bonus, of 150
C18_Witness ==
  /\ last.op = "add_experience" /\ last.ret /\ last.arg[2] = 400
  /\ players[last.arg[1]].level = 3
  /\ players[last.arg[1]].experience_points = 400
  /\ ledger = << [user_id |-> last.arg[1], type |-> "level_up",
                  from_currency |-> NoCurrency, to_currency |-> "euros",
                  amount |-> 150] >>

(* C19: after any of spend, credit, addExperience, Complete and Fail has  *)
(* returned, every entry of every player's currencyBalances is >= 0.      *)
C19_BalancesNonNegative ==
  \A u \in PlayerIds :
    \A c \in DOMAIN players[u].currency_balances :
      players[u].currency_balances[c] >= 0

(* C20: the first encounterCharacter for a character id creates the       *)
(* record with encounterCount 1 and relationshipLevel initialRelationship;*)
(* every later call for that id raises encounterCount by exactly 1 and    *)
(* leaves relationshipLevel, name and firstEncounterAt as they were,      *)
(* whatever initialRelationship is passed.                                *)
C20_RepeatEncounterKeepsLevel ==
  \A u \in PlayerIds, cid \in CharIds, name \in Names,
     init \in InitialRelationships, now \in Times :
    LET e == players[u].encountered_characters
        e2 == encounter_character(World, u, cid, name, init, now)
                .p[u].encountered_characters
    IN /\ cid \in DOMAIN e2
       /\ IF cid \notin DOMAIN e
          THEN /\ e2[cid].encounters_count = 1
               /\ e2[cid].relationship_level = init
               /\ e2[cid].name = name
               /\ e2[cid].first_encounter = now
          ELSE /\ e2[cid].encounters_count = e[cid].encounters_count + 1
               /\ e2[cid].relationship_level = e[cid].relationship_level
               /\ e2[cid].name = e[cid].name
               /\ e2[cid].first_encounter = e[cid].first_encounter
       /\ \A c \in DOMAIN e \ {cid} : e2[c] = e[c]

\* a second encounter passed another name and another initial level than
\* the record holds, at a later time
C20_Witness ==
  /\ last.op = "encounter"
  /\ LET e == players[last.arg[1]].encountered_characters
         cid == last.arg[2]
     IN /\ e[cid].encounters_count = 2
        /\ e[cid].name # last.arg[3]
        /\ e[cid].relationship_level = 5 /\ last.arg[4] = 0
        /\ e[cid].first_encounter < e[cid].last_encounter

\* sum of a sequence of integers
RECURSIVE SumSeq(_)
SumSeq(q) == IF q = <<>> THEN 0 ELSE Head(q) + SumSeq(Tail(q))

\* (delta, a reason is given) pairs the relationship properties range over
AnyChange == {-3, -1, 2} \X BOOLEAN

(* C21: updateUserCharacterRelationship on a character the player never   *)
(* encountered fails and changes nothing; on an encountered character it  *)
(* adds delta to relationshipLevel and appends one history entry exactly  *)
(* when a reason is given; so relationshipLevel always equals the first-  *)
(* encounter value plus the sum of the deltas applied.                    *)
C21_RelationshipChange ==
  /\ \A u \in PlayerIds, cid \in CharIds, ch \in AnyChange :
       LET e == players[u].encountered_characters
           r == change_character_relationship(World, u, cid, ch[1], ch[2])
           e2 == r.w.p[u].encountered_characters
       IN IF cid \notin DOMAIN e
          THEN ~r.ret /\ r.w = World
          ELSE /\ r.ret
               /\ e2[cid].relationship_level = e[cid].relationship_level + ch[1]
               /\ e2[cid].relationship_history =
                    IF ch[2] THEN Append(e[cid].relationship_history, ch[1])
                    ELSE e[cid].relationship_history
               /\ e2[cid].encounters_count = e[cid].encounters_count
               /\ \A c \in DOMAIN e \ {cid} : e2[c] = e[c]
  /\ \A u \in PlayerIds, cid \in CharIds :
       IF cid \in DOMAIN players[u].encountered_characters
       THEN /\ applied[u][cid] # <<>>
            /\ players[u].encountered_characters[cid].relationship_level
                 = SumSeq(applied[u][cid])
       ELSE applied[u][cid] = <<>>

\* a character met at level 5 took +2 with a reason and -3 without: the
\* level is 4 and the history holds the one entry
C21_Witness ==
  /\ last.op = "change_relationship" /\ last.ret
  /\ LET u == last.arg[1]
         cid == last.arg[2]
     IN /\ applied[u][cid] = <<5, 2, -3>>
        /\ players[u].encountered_characters[cid].relationship_level = 4
        /\ players[u].encountered_characters[cid].relationship_history = <<2>>

\* number of trait_added entries in an evolution log
TraitEntries(log) ==
  Cardinality({i \in 1..Len(log) : log[i].type = "trait_added"})

(* C22: addTrait has set semantics: adding a trait already present        *)
(* returns false and changes neither evolvedTraits nor the evolution log; *)
(* adding a new trait returns true, appends it and appends one            *)
(* trait_added entry. evolvedTraits never holds a duplicate and the       *)
(* number of trait_added entries equals the number of traits.             *)
C22_TraitSetSemantics ==
  \A cid \in DOMAIN evolutions :
    LET ce == evolutions[cid]
    IN /\ \A trait \in Traits :
            LET r == add_trait(ce, trait, <<>>)
            IN IF \E i \in 1..Len(ce.evolved_traits) : ce.evolved_traits[i] = trait
               THEN ~r.ret /\ r.ce = ce
               ELSE /\ r.ret
                    /\ r.ce.evolved_traits = Append(ce.evolved_traits, trait)
                    /\ r.ce.evolution_log =
                         Append(ce.evolution_log,
                                [type |-> "trait_added", trait |-> trait,
                                 reason |-> <<>>])
                    /\ r.ce.role = ce.role
                    /\ r.ce.relationship_network = ce.relationship_network
       /\ \A i, j \in 1..Len(ce.evolved_traits) :
            ce.evolved_traits[i] = ce.evolved_traits[j] => i = j
       /\ TraitEntries(ce.evolution_log) = Len(ce.evolved_traits)

\* a trait the row already holds was added again and refused, with other
\* entries in the log
C22_Witness ==
  /\ last.op = "add_trait" /\ ~last.ret
  /\ LET ce == evolutions[last.arg[1]]
     IN /\ InList(ce.evolved_traits, last.arg[2])
        /\ Len(ce.evolved_traits) = 2
        /\ Len(ce.evolution_log) = 3

\* row a of E holds an edge to b with the given type and strength
EdgeIs(E, a, b, type, strength) ==
  /\ a \in DOMAIN E
  /\ b \in DOMAIN E[a].relationship_network
  /\ E[a].relationship_network[b].type = type
  /\ E[a].relationship_network[b].strength = strength

\* the edge of a network n to b, <<>> when there is none
EdgeOf(n, b) == IF b \in DOMAIN n THEN <<n[b]>> ELSE <<>>

(* C23: addRelationship on character A for target T replaces A's edge to  *)
(* T with exactly the given type and strength, nothing of the previous    *)
(* edge kept, and leaves every other edge of A and the rows of all other  *)
(* characters unchanged.                                                  *)
C23_EdgeOverwritten ==
  [][ last'.op = "add_relationship" =>
        LET a == last'.arg[1]
            t == last'.arg[2]
        IN /\ DOMAIN evolutions' = DOMAIN evolutions
           /\ evolutions'[a].relationship_network[t] =
                [type |-> last'.arg[3], strength |-> last'.arg[4],
                 last_updated |-> Clock]
           /\ \A b \in EvolutionChars \ {t} :
                EdgeOf(evolutions'[a].relationship_network, b)
                  = EdgeOf(evolutions[a].relationship_network, b)
           /\ evolutions'[a].role = evolutions[a].role
           /\ evolutions'[a].evolved_traits = evolutions[a].evolved_traits
           /\ evolutions'[a].evolution_log = evolutions[a].evolution_log
           /\ \A c \in DOMAIN evolutions \ {a} : evolutions'[c] = evolutions[c]
    ]_vars

\* the second write of the run replaced the edge the first had made: no
\* edge carries the first stamp any more
C23_Witness ==
  /\ last.op = "add_relationship"
  /\ evolutions[last.arg[1]].relationship_network[last.arg[2]].last_updated = 2
  /\ \A c \in DOMAIN evolutions :
       \A b \in DOMAIN evolutions[c].relationship_network :
         evolutions[c].relationship_network[b].last_updated # 1

(* C24 as claimed: in the batch update, for each target id that has a row *)
(* in the evolution set, both edges are updated: protagonist -> target    *)
(* with (type, amount) and target -> protagonist with (inverseType if     *)
(* given else type, inverseAmount if given else amount).                  *)
C24_BothEdgesUpdated ==
  last.op = "update_relationships" =>
    LET p == last.arg[1]
        changes == last.arg[2]
    IN \A i \in 1..Len(changes) :
         LET t == changes[i][1]
             d == changes[i][2]
             type == IF d.type = <<>> THEN "neutral" ELSE d.type[1]
             amount == IF d.amount = <<>> THEN 0 ELSE d.amount[1]
         IN t \in DOMAIN evolutions =>
              /\ EdgeIs(evolutions, p, t, type, amount)
              /\ EdgeIs(evolutions, t, p,
                        IF d.inverse_type = <<>> THEN type ELSE d.inverse_type[1],
                        IF d.inverse_amount = <<>> THEN amount
                        ELSE d.inverse_amount[1])

(* C24 amended: for each target id that has a row and is not the          *)
(* protagonist itself, target -> protagonist is updated with the inverse  *)
(* values (defaulting to type and amount), and protagonist -> target is   *)
(* updated with (type, amount) when the protagonist has a row too; no row *)
(* is made for a protagonist that has none.                               *)
C24_EdgesUpdatedWherePossible ==
  \A p \in Protagonists, changes \in BatchInputs :
    LET r == update_character_relationships(evolutions, p, changes, Clock)
    IN /\ DOMAIN r.e = DOMAIN evolutions
       /\ \A i \in 1..Len(changes) :
            LET t == changes[i][1]
                d == changes[i][2]
                type == IF d.type = <<>> THEN "neutral" ELSE d.type[1]
                amount == IF d.amount = <<>> THEN 0 ELSE d.amount[1]
            IN (t \in DOMAIN evolutions /\ t # p) =>
                 /\ p \in DOMAIN evolutions => EdgeIs(r.e, p, t, type, amount)
                 /\ EdgeIs(r.e, t, p,
                           IF d.inverse_type = <<>> THEN type
                           ELSE d.inverse_type[1],
                           IF d.inverse_amount = <<>> THEN amount
                           ELSE d.inverse_amount[1])

\* a batch gave protagonist 1 and target 3, both with rows, the edge
\* (enemy, -2) one way and the inverse (rival, 1) the other
C24_Witness ==
  /\ last.op = "update_relationships" /\ last.ret
  /\ EdgeIs(evolutions, 1, 3, "enemy", -2)
  /\ EdgeIs(evolutions, 3, 1, "rival", 1)

(* C25: the batch is best-effort per entry: an entry whose target has no  *)
(* row is skipped without any edge to that target being written, the     *)
(* other entries are applied as if it were not there, and the batch       *)
(* reports success.                                                       *)
C25_BatchSkipsMissingTargets ==
  \A p \in Protagonists, changes \in BatchInputs :
    LET HasRow(item) == item[1] \in DOMAIN evolutions
        r == update_character_relationships(evolutions, p, changes, Clock)
    IN /\ r.ret
       /\ DOMAIN r.e = DOMAIN evolutions
       /\ r.e = update_character_relationships(evolutions, p,
                                               SelectSeq(changes, HasRow), Clock).e
       /\ \A i \in 1..Len(changes) :
            IF HasRow(changes[i])
            THEN /\ p \in DOMAIN r.e[changes[i][1]].relationship_network
                 /\ r.e[changes[i][1]].relationship_network[p].last_updated = Clock
            ELSE \A c \in DOMAIN evolutions :
                   EdgeOf(r.e[c].relationship_network, changes[i][1])
                     = EdgeOf(evolutions[c].relationship_network, changes[i][1])

\* a batch whose first target, 3, has no row returned success with the
\* edges for its second target, 2, written and none to 3
C25_Witness ==
  /\ last.op = "update_relationships" /\ last.ret
  /\ Len(last.arg[2]) = 2 /\ last.arg[2][1][1] = 3
  /\ 3 \notin DOMAIN evolutions
  /\ EdgeIs(evolutions, 1, 2, "friend", 3)
  /\ EdgeIs(evolutions, 2, 1, "friend", 3)
  /\ 3 \notin DOMAIN evolutions[1].relationship_network

(* C26: a mission created from narrative text gets its difficulty from the
   reward alone: hard if amount > 2.5 x base(currency), otherwise medium if
   amount > 1.5 x base(currency), otherwise easy. Checked on the mission
   create_mission_from_story stores, in every reachable state, for every
   currency of the base table and the amounts around both thresholds. *)
C26_DifficultyFromReward ==
  \A uid \in CreateUsers, currency \in DOMAIN BASE_REWARDS :
    \A amount \in RewardAmounts(currency) :
      LET W == create_mission_from_story(World, uid, NoChar, NoChar,
                                         amount, currency)
          m == W.m[Len(missions) + 1]
          base == BASE_REWARDS[currency]
      IN /\ Len(W.m) = Len(missions) + 1
         /\ m.reward_amount = amount
         /\ m.reward_currency = currency
         /\ m.difficulty =
              IF 2 * amount > 5 * base THEN "hard"
              ELSE IF 2 * amount > 3 * base THEN "medium"
              ELSE "easy"

\* a mission created from a story promising 4000 euros (above 2.5 x 1450)
\* is stored as hard
C26_Witness ==
  \E mid \in 1..Len(missions) :
    /\ missions[mid].reward_amount = 4000
    /\ missions[mid].reward_currency = "euros"
    /\ missions[mid].difficulty = "hard"
    /\ last.op = "create"
    /\ last.arg = mid

(* C27: UpdateProgress, Complete and Fail called with a mission id that does
   not exist return failure and change no mission, player, ledger or
   relationship state. Stated on the handlers applied in every reachable
   state to every id without a row, and on every step such a call takes. *)
C27_MissingMissionIsNoOp ==
  /\ [](\A mid \in (1..(MaxMissions + 1)) \ (1..Len(missions)) :
         /\ \A p \in ProgressValues :
              update_mission_progress(World, mid, p) = [w |-> World, ret |-> FALSE]
         /\ \A uid \in UserIds :
              /\ complete_mission(World, mid, uid) = [w |-> World, ret |-> FALSE]
              /\ \A reason \in FailReasons \cup {<<>>} :
                   fail_mission(World, mid, uid, reason) =
                     [w |-> World, ret |-> FALSE])
  /\ [][(/\ last'.op \in {"update_progress", "complete", "fail"}
          /\ ~HasMission(World, last'.arg))
         => (/\ last'.ret = FALSE
             /\ UNCHANGED <<missions, players, ledger, applied, evolutions>>)]_vars

\* update_mission_progress has just been refused for an id no mission has
C27_Witness ==
  /\ last.op = "update_progress"
  /\ last.ret = FALSE
  /\ ~HasMission(World, last.arg)
  /\ ledger = <<>>

(* C28: Complete or Fail called with a user id for which no player record
   exists fails, and the mission stays active with an unchanged progress
   log. Stated on the handlers applied to every active mission of every
   reachable state, for every user id without a UserProgress row. *)
C28_UnknownUserIsRefused ==
  \A mid \in 1..Len(missions), uid \in UserIds \ DOMAIN players :
    missions[mid].status = "active" =>
      /\ LET r == complete_mission(World, mid, uid)
         IN /\ r.ret = FALSE
            /\ r.w.m[mid].status = "active"
            /\ r.w.m[mid].progress_updates = missions[mid].progress_updates
      /\ \A reason \in FailReasons :
           LET r == fail_mission(World, mid, uid, reason)
           IN /\ r.ret = FALSE
              /\ r.w.m[mid].status = "active"
              /\ r.w.m[mid].progress_updates = missions[mid].progress_updates

\* the amount a requirements map asks for in a currency (0: not in the map)
ReqAmount(R, c) ==
  IF \E i \in 1..Len(R) : R[i][1] = c
  THEN R[CHOOSE i \in 1..Len(R) : R[i][1] = c][2]
  ELSE 0

(* C29: a successful spend debits every currency of the requirements map
   and appends exactly one ledger entry per debited currency; if the storage
   commit fails, the call returns failure and none of the debits and none of
   the new ledger entries persist. *)
C29_SpendAllOrNothing ==
  /\ [](\A u \in PlayerIds, R \in ReqMaps :
         can_afford(players[u].currency_balances, R) =>
           spend_currency_stored(World, u, R, "choice_cost", TRUE)
             = [w |-> World, ret |-> FALSE])
  /\ [][LET uid == last'.arg[1]
             R == last'.arg[2]
         IN /\ (last'.op = "spend" /\ last'.ret = TRUE) =>
                 /\ Len(ledger') = Len(ledger) + Len(R)
                 /\ SubSeq(ledger', 1, Len(ledger)) = ledger
                 /\ \A i \in 1..Len(R) :
                      ledger'[Len(ledger) + i] =
                        Transaction(uid, "choice_cost", R[i][1], NoCurrency, R[i][2])
                 /\ \A c \in AllCurrencies :
                      Get(players'[uid].currency_balances, c) =
                        Get(players[uid].currency_balances, c) - ReqAmount(R, c)
                 /\ \A u \in PlayerIds \ {uid} : players'[u] = players[u]
            /\ last'.op = "spend_fault" =>
                 /\ last'.ret = FALSE
                 /\ UNCHANGED <<missions, players, ledger>>]_vars

\* after an earlier spend went through, a spend of two currencies the
\* player can pay for has failed at the commit
C29_Witness ==
  /\ last.op = "spend_fault"
  /\ last.ret = FALSE
  /\ Len(last.arg[2]) = 2
  /\ can_afford(players[last.arg[1]].currency_balances, last.arg[2])
  /\ Len(ledger) = 1
  /\ ledger[1].user_id = last.arg[1]
  /\ ledger[1].from_currency # NoCurrency

(* C30: once a mission is completed or failed, no later call changes its
   progress value or its progress log; in particular UpdateProgress on it
   changes neither, and a completed mission keeps progress = 100. *)
C30_TerminalMissionFrozen ==
  [][ \A mid \in 1..Len(missions) :
        missions[mid].status \in {"completed", "failed"} =>
          /\ mid \in 1..Len(missions')
          /\ missions'[mid].progress = missions[mid].progress
          /\ missions'[mid].progress_updates = missions[mid].progress_updates
          /\ (missions[mid].status = "completed" => missions'[mid].progress = 100)
    ]_vars

(* C31: every ledger entry appended by spend, credit or the level-up bonus
   has amount > 0, whatever requirements map or amount the caller passes. *)
C31_LedgerAmountsPositive ==
  \A i \in 1..Len(ledger) : ledger[i].amount > 0

\* a text holds a phrase: the pieces of the phrase in a row
Contains(t, phrase) ==
  \E i \in 0..(Len(t) - Len(phrase)) :
    SubSeq(t, i + 1, i + Len(phrase)) = phrase

\* pieces that are one word
WordPieces == {"Mara", "shadow", "Corp", "on", "plans", "against"}

\* what the giver, target and reward patterns accept
GiverPhrases ==
  {<<"figure of", w, "Corp">> : w \in WordPieces}
  \cup {<<"figure of", "Mara">>, <<"figure of", "Corp">>}
TargetPhrases ==
  {<<"on", w, "'s", "plans">> : w \in WordPieces}
  \cup {<<"against", p>> : p \in Pieces \ {".", "'s", "euros"}}
RewardPhrases == {<<"reward?", "2,500", "euros">>}

\* the text has an objective: "mission--", then something, then "." or "'"
HasObjective(t) ==
  \E i \in 1..Len(t), j \in 1..Len(t) :
    t[i] = "mission--" /\ j >= i + 2 /\ t[j] \in {".", "'s"}

(* C32: mission extraction never fails on a partial match: for every text,
   a record is returned in which each of giver, target, objective and reward
   is what its own pattern matched, or its default when its pattern matches
   nowhere (giver and target None, the objective "Objective not clearly
   specified.", the reward 1500 dollars), whatever the other three do. *)
C32_ExtractionDefaults ==
  (last.op = "extract" /\ last.arg.is_str) =>
    /\ Len(last.ret) = 1
    /\ LET t == last.arg.pieces
           d == last.ret[1]
       IN /\ (d.giver = <<>>) = (\A ph \in GiverPhrases : ~Contains(t, ph))
          /\ d.giver # <<>> => Contains(t, <<"figure of">> \o d.giver)
          /\ (d.target = <<>>) = (\A ph \in TargetPhrases : ~Contains(t, ph))
          /\ d.target # <<>> =>
               \/ Contains(t, <<"on">> \o d.target \o <<"'s", "plans">>)
               \/ \E p \in Pieces :
                    Contains(t, <<"against", p>>) /\ d.target = <<WordPrefix(p)>>
          /\ (d.objective = DefaultObjective) = ~HasObjective(t)
          /\ d.objective # DefaultObjective =>
               /\ d.objective # <<>>
               /\ \E stop \in {".", "'s"} :
                    Contains(t, <<"mission--">> \o d.objective \o <<stop>>)
               /\ \A k \in 2..Len(d.objective) : d.objective[k] \notin {".", "'s"}
          /\ <<d.reward_amount, d.reward_currency>> =
               IF \E ph \in RewardPhrases : Contains(t, ph)
               THEN <<2500, "euros">> ELSE <<1500, "dollars">>

\* a text naming a giver and a target, with no objective and a reward that
\* lacks its currency: two fields matched, two took their defaults
C32_Witness ==
  /\ last.op = "extract"
  /\ Contains(last.arg.pieces, <<"reward?", "2,500">>)
  /\ last.ret = << [giver |-> <<"Mara">>, target |-> <<"shadow">>,
                    objective |-> DefaultObjective,
                    reward_amount |-> 1500, reward_currency |-> "dollars"] >>

(* C33: when the story record carries a structured mission payload,
   generate_mission builds the mission from the payload and does not run
   free-text extraction in that call. *)
C33_PayloadTakesPrecedence ==
  (last.op = "generate" /\ last.arg[2] # <<>>
     /\ last.arg[2][1].is_json /\ last.arg[2][1].mission # <<>>) =>
    LET p == last.arg[2][1].mission[1]
    IN /\ ~last.ret.extracted
       /\ last.ret.mission \in 1..Len(missions)
       /\ missions[last.ret.mission].reward_amount = p.reward_amount
       /\ missions[last.ret.mission].reward_currency = p.reward_currency
       /\ missions[last.ret.mission].difficulty = Lower(p.difficulty)

(* C38: one call to generate_mission persists at most one new mission, on
   every path, also when an exception is raised in the payload branch after
   the mission row was committed. *)
C38_AtMostOneMissionPerCall ==
  [][last'.op = "generate" => Len(missions') <= Len(missions) + 1]_vars

\* the role_changed entries of an evolution log, in order
RoleEntries(log) == SelectSeq(log, LAMBDA e : e.type = "role_changed")

(* C34: updateRole always succeeds, sets the role to the new role and
   appends exactly one role_changed entry whose old_role is the role held
   just before the call; so in every evolution log each role_changed
   entry's old_role is the new_role of the role_changed entry before it,
   and the last one's new_role is the current role. *)
C34_RoleChangeChain ==
  /\ [][last'.op = "update_role" =>
          LET cid == last'.arg[1]
              log == evolutions[cid].evolution_log
              log2 == evolutions'[cid].evolution_log
          IN /\ last'.ret = TRUE
             /\ evolutions'[cid].role = last'.arg[2]
             /\ Len(log2) = Len(log) + 1
             /\ SubSeq(log2, 1, Len(log)) = log
             /\ log2[Len(log2)].type = "role_changed"
             /\ log2[Len(log2)].old_role = evolutions[cid].role
             /\ log2[Len(log2)].new_role = last'.arg[2]]_vars
  /\ [](\A cid \in DOMAIN evolutions :
          LET r == RoleEntries(evolutions[cid].evolution_log)
          IN /\ \A k \in 2..Len(r) : r[k].old_role = r[k - 1].new_role
             /\ r # <<>> => r[Len(r)].new_role = evolutions[cid].role)

\* a character became an ally and then an enemy, with another kind of entry
\* logged in between
C34_Witness ==
  /\ last.op = "update_role"
  /\ \E cid \in DOMAIN evolutions :
       LET log == evolutions[cid].evolution_log
       IN /\ Len(log) = 3
          /\ log[1].type = "role_changed" /\ log[1].new_role = "ally"
          /\ log[2].type # "role_changed"
          /\ log[3].type = "role_changed" /\ log[3].old_role = "ally"
          /\ log[3].new_role = "enemy"
          /\ evolutions[cid].role = "enemy"

(* C35: a mission's reward, XP and relationship changes are applied only to
   the player who owns the mission: Complete or Fail called with a user id
   other than the mission's user_id changes neither that other player's
   balances, XP, mission lists or relationships, nor the mission's status.
   Stated on the handlers applied to every active mission of every
   reachable state, for every player who is not its owner. *)
C35_OnlyOwnerIsAffected ==
  \A mid \in 1..Len(missions), uid \in PlayerIds :
    (missions[mid].status = "active" /\ uid # missions[mid].user_id) =>
      /\ LET r == complete_mission(World, mid, uid)
         IN /\ r.w.p[uid] = players[uid]
            /\ r.w.m[mid].status = "active"
      /\ \A reason \in FailReasons :
           LET r == fail_mission(World, mid, uid, reason)
           IN /\ r.w.p[uid] = players[uid]
              /\ r.w.m[mid].status = "active"

\* every request has returned
AllDone == \A r \in RequestIds : requests[r].pc = "done"

(* C36: when two Complete requests, or a Complete and a Fail request, for
   the same active mission interleave, each reading the mission's status
   before either commits, the reward and the XP are granted at most once
   and the mission id ends up in exactly one of the completed and failed
   sets. *)
C36_ResolvedOnceUnderRace ==
  (AllDone /\ \E r \in RequestIds : requests[r].ret) =>
    \A mid \in 1..Len(missions) :
      LET u == missions[mid].user_id
          c == missions[mid].reward_currency
      IN /\ CountIn(players[u].completed_missions, mid)
              + CountIn(players[u].failed_missions, mid) = 1
         /\ players[u].experience_points <= XpReward(missions[mid].difficulty)
         /\ Get(players[u].currency_balances, c)
              - Get(start[u], c) - LedgerNet(ledger, u, c)
              <= missions[mid].reward_amount

\* the amount the requests that returned success asked for in a currency
DebitedBy(u, c) ==
  LET RECURSIVE Sum(_)
      Sum(rs) == IF rs = {} THEN 0
                 ELSE LET r == CHOOSE x \in rs : TRUE
                      IN ReqAmount(requests[r].arg, c) + Sum(rs \ {r})
  IN Sum({r \in RequestIds : /\ requests[r].pc = "done" /\ requests[r].ret
                             /\ requests[r].op = "spend"
                             /\ requests[r].uid = u})

(* C37: when two spend requests for the same player interleave, no balance
   becomes negative and the final balance is the starting balance minus the
   debits of the requests that returned success. *)
C37_NoLostSpend ==
  /\ \A u \in PlayerIds, c \in AllCurrencies :
       Get(players[u].currency_balances, c) >= 0
  /\ AllDone =>
       \A u \in PlayerIds, c \in AllCurrencies :
         Get(players[u].currency_balances, c) = Get(start[u], c) - DebitedBy(u, c)

\* the ids of a user's missions, active ones first
ServerMissionIds(u) ==
  LET all == users[u][1].active_missions \o users[u][1].completed_missions
  IN [i \in 1..Len(all) |-> all[i].id]

(* C39: in the HTTP layer's in-memory state, after any sequence of
   story-generate and mission-complete requests, no two missions of the
   same user, across active_missions and completed_missions, share an id. *)
C39_ServerMissionIdsUnique ==
  \A u \in ServerUsers :
    users[u] # <<>> =>
      \A i, j \in 1..Len(ServerMissionIds(u)) :
        i # j => ServerMissionIds(u)[i] # ServerMissionIds(u)[j]

(* C40: when make_choice answers with the error of a failed generation of
   the next story segment, the user's currency balances and choice history
   are the same as before the request. *)
C40_FailedChoiceChangesNothing ==
  [][ (last'.op = "make_choice" /\ last'.ret = 500) =>
        LET u == last'.arg[1]
        IN /\ users'[u][1].currency_balances = users[u][1].currency_balances
           /\ users'[u][1].choice_history = users[u][1].choice_history ]_vars

====
